---- MODULE Spec2Model ----
(***************************************************************************)
(* Verification model of the storage and concurrency core of bustub_jc:    *)
(* page guards, the buffer pool manager with its LRU-K replacer, the       *)
(* B+Tree index and the hierarchical lock manager.                         *)
(*                                                                         *)
(* The four subsystems have disjoint variables.  Each has its own          *)
(* specification (SpecGuard, SpecBpm, SpecTree, SpecConc, SpecLock, ...),  *)
(* which keeps the variables of the other subsystems at their idle value.  *)
(***************************************************************************)
EXTENDS Integers, Sequences, FiniteSets, TLC

VARIABLES
  \* ---- page guards (storage/page/page_guard.cpp)
  galive,      \* guard slot -> the object exists (constructed, not destroyed)
  gkind,       \* guard slot -> class of the object: basic, read or write
  gpage,       \* guard slot -> page_ of the guard (NoPage = nullptr)
  gpin,        \* page -> pins taken by guard acquisition minus UnpinPage calls
  greaders,    \* page -> RLatch calls minus RUnlatch calls
  gwriters,    \* page -> WLatch calls minus WUnlatch calls
  gop,         \* the last guard operation and what its target held before it
  \* ---- buffer pool manager and replacer (buffer/buffer_pool_manager.cpp)
  bpm,         \* the buffer pool record (see BUFFER POOL MANAGER below)
  \* ---- lock manager (concurrency/lock_manager.cpp)
  iso_level,       \* txn -> isolation level
  txn_state,       \* txn -> GROWING, SHRINKING, COMMITTED or ABORTED
  table_lock_set,  \* txn -> table locks it records as held: <<mode, oid>>
  row_lock_set,    \* txn -> row locks it records as held: <<mode, oid, rid>>
  table_lock_map,  \* oid -> lock request queue
  row_lock_map,    \* rid -> lock request queue
  tpc,             \* txn -> position of its thread
  tcall,           \* txn -> the lock call its thread is blocked in
  lret,            \* the call that returned or threw in the last step, if any
  ncalls,          \* txn -> LockTable/LockRow calls made
  dpc,             \* position of the deadlock detector: sleep, detect, notify
  waits_for,       \* the detector's wait-for graph: txn -> set of txns
  txn_set,         \* the detector's set of transactions with outgoing edges
  dvictim,         \* the transaction the detector is aborting
  dpending,        \* queues its notify loops have not visited yet
  lm_failed,       \* the process failed (assertion or data race)
  \* ---- B+Tree index (storage/index/b_plus_tree.cpp)
  tree,            \* the index: its buffer pool, its pages and its fan-out
  tlast,           \* the last call on the index and what it returned
  stored,          \* key -> value of the last successful Insert not yet removed
  threads,         \* the header latch and every thread's position in Insert
  \* ---- index iterator (storage/index/index_iterator.cpp)
  iter,            \* the iterator of the scan in progress and what it yielded
  \* ---- one lock request queue among three transactions (lock_manager.cpp)
  queue_map,       \* oid -> lock request queue, as table_lock_map
  queue_pc,        \* txn -> idle, waiting (in cv_.wait) or aborted
  queue_calls,     \* txn -> LockTable calls made
  \* ---- threads inside buffer pool calls (buffer/buffer_pool_manager.cpp)
  callers          \* thread -> the call it is in, its position and its locals

varsGuard == <<galive, gkind, gpage, gpin, greaders, gwriters, gop>>
varsBpm == <<bpm>>
varsLock == <<iso_level, txn_state, table_lock_set, row_lock_set, table_lock_map,
              row_lock_map, tpc, tcall, lret, ncalls, dpc, waits_for, txn_set,
              dvictim, dpending, lm_failed>>
varsTree == <<tree, tlast, stored, threads>>
varsIter == <<iter>>
varsQueue == <<queue_map, queue_pc, queue_calls>>
varsCallers == <<callers>>

\* Each subsystem's steps leave the other subsystems' variables alone.
OnlyGuard == UNCHANGED <<varsBpm, varsLock, varsTree, varsIter, varsQueue, varsCallers>>
OnlyBpm == UNCHANGED <<varsGuard, varsLock, varsTree, varsIter, varsQueue, varsCallers>>
OnlyLock == UNCHANGED <<varsGuard, varsBpm, varsTree, varsIter, varsQueue, varsCallers>>
OnlyTree == UNCHANGED <<varsGuard, varsBpm, varsLock, varsIter, varsQueue, varsCallers>>
OnlyIter == UNCHANGED <<varsGuard, varsBpm, varsLock, varsQueue, varsCallers>>
OnlyCallers == UNCHANGED <<varsGuard, varsLock, varsTree, varsIter, varsQueue>>
OnlyQueue == UNCHANGED <<varsGuard, varsBpm, varsLock, varsTree, varsIter, varsCallers>>

vars == <<varsGuard, varsBpm, varsLock, varsTree, varsIter, varsQueue, varsCallers>>

(***************************************************************************)
(* Generic helpers                                                         *)
(***************************************************************************)
Range(s) == {s[i] : i \in DOMAIN s}

MinOf(S) == CHOOSE x \in S : \A y \in S : x <= y
MaxOf(S) == CHOOSE x \in S : \A y \in S : x >= y

RemoveAt(s, i) == [j \in 1..(Len(s) - 1) |-> IF j < i THEN s[j] ELSE s[j + 1]]

InsertAt(s, i, e) ==
  [j \in 1..(Len(s) + 1) |-> IF j < i THEN s[j] ELSE IF j = i THEN e ELSE s[j - 1]]

(***************************************************************************)
(* LRU-K REPLACER (buffer/lru_k_replacer.cpp)                              *)
(*                                                                         *)
(* A replacer is a record                                                  *)
(*   node_store        frame -> [evictable, history] of the tracked frames *)
(*   temp_pool         frames with fewer than k accesses, insertion order  *)
(*   cache_pool        <<frame, backk>> pairs, ascending backk             *)
(*   evictable_size    the counter Size() returns                          *)
(*   current_timestamp                                                     *)
(*   k                                                                     *)
(*   failed            BUSTUB_ENSURE failed                                *)
(***************************************************************************)
INVALID_PAGE_ID == -1

FnErase(fn, x) == [y \in (DOMAIN fn) \ {x} |-> fn[y]]

FnPut(fn, x, v) == [y \in (DOMAIN fn) \cup {x} |-> IF y = x THEN v ELSE fn[y]]

EmptyFn == [y \in {} |-> 0]

SeqWithout(s, x) == SelectSeq(s, LAMBDA e : e # x)

NewReplacer(k) ==
  [node_store |-> EmptyFn, temp_pool |-> <<>>, cache_pool |-> <<>>,
   evictable_size |-> 0, current_timestamp |-> 0, k |-> k, failed |-> FALSE]

\* LRUKNode::PushFront: newest timestamp first, at most k kept.
PushFront(hist, ts, k) == SubSeq(<<ts>> \o hist, 1, IF Len(hist) + 1 > k THEN k ELSE Len(hist) + 1)

\* LRUKNode::BackK: the k-th most recent timestamp, 0 with fewer than k.
BackK(hist, k) == IF Len(hist) < k THEN 0 ELSE hist[k]

\* std::upper_bound on cache_pool by backk: first position whose backk is
\* greater than b (1-based; Len + 1 if none).
RECURSIVE CacheUpperBound(_, _, _)
CacheUpperBound(pool, b, i) ==
  IF i > Len(pool) THEN i
  ELSE IF pool[i][2] > b THEN i ELSE CacheUpperBound(pool, b, i + 1)

CacheWithout(pool, f) == SelectSeq(pool, LAMBDA e : e[1] # f)

CacheInsert(pool, f, b) == InsertAt(pool, CacheUpperBound(pool, b, 1), <<f, b>>)

\* LRUKReplacer::RecordAccess
RecordAccess(r, f) ==
  LET ts == r.current_timestamp + 1 IN
  IF f \notin DOMAIN r.node_store
  THEN [r EXCEPT !.current_timestamp = ts,
                 !.node_store = FnPut(@, f, [evictable |-> FALSE, history |-> <<ts>>]),
                 !.temp_pool = Append(@, f)]
  ELSE LET hist == PushFront(r.node_store[f].history, ts, r.k)
           backk == BackK(hist, r.k)
           r1 == [r EXCEPT !.current_timestamp = ts,
                           !.node_store[f].history = hist]
       IN IF f \in Range(r.temp_pool)
          THEN IF backk # 0
               THEN [r1 EXCEPT !.temp_pool = SeqWithout(@, f),
                               !.cache_pool = CacheInsert(@, f, backk)]
               ELSE r1
          ELSE [r1 EXCEPT !.cache_pool = CacheInsert(CacheWithout(@, f), f, backk)]

\* LRUKReplacer::SetEvictable
SetEvictable(r, f, set_evictable) ==
  IF f \notin DOMAIN r.node_store THEN r
  ELSE IF r.node_store[f].evictable /\ ~set_evictable
       THEN [r EXCEPT !.node_store[f].evictable = FALSE,
                      !.evictable_size = @ - 1]
       ELSE IF ~r.node_store[f].evictable /\ set_evictable
            THEN [r EXCEPT !.node_store[f].evictable = TRUE,
                           !.evictable_size = @ + 1]
            ELSE r

\* The frame LRUKReplacer::Evict picks: the first evictable frame of
\* temp_pool, else the first evictable frame of cache_pool; -1 if none.
EvictVictim(r) ==
  LET temp == SelectSeq(r.temp_pool, LAMBDA f : r.node_store[f].evictable)
      cache == SelectSeq(r.cache_pool, LAMBDA e : r.node_store[e[1]].evictable)
  IN IF r.evictable_size = 0 THEN -1
     ELSE IF Len(temp) > 0 THEN temp[1]
     ELSE IF Len(cache) > 0 THEN cache[1][1]
     ELSE -1

\* LRUKReplacer::Evict: the replacer after it (EvictVictim is the result).
Evict(r) ==
  LET f == EvictVictim(r) IN
  IF f = -1 THEN r
  ELSE [r EXCEPT !.temp_pool = SeqWithout(@, f),
                 !.cache_pool = CacheWithout(@, f),
                 !.node_store = FnErase(@, f),
                 !.evictable_size = @ - 1]

\* LRUKReplacer::Remove.  BUSTUB_ENSURE(frame_ptr->GetEvictable() == false)
\* ends the process when the frame is evictable.
ReplacerRemove(r, f) ==
  IF f \notin DOMAIN r.node_store THEN r
  ELSE IF r.node_store[f].evictable # FALSE
       THEN [r EXCEPT !.failed = TRUE]
       ELSE [r EXCEPT !.temp_pool = SeqWithout(@, f),
                      !.cache_pool = CacheWithout(@, f),
                      !.node_store = FnErase(@, f),
                      !.evictable_size = @ - 1]

\* LRUKReplacer::Size.  evictable_size_ is a size_t that the code only
\* increments, decrements and compares with 0: the value -1 stands for the
\* wrapped value 2^64 - 1.
ReplacerSize(r) == r.evictable_size

(***************************************************************************)
(* Replacer state machine: any sequence of RecordAccess, SetEvictable,     *)
(* Evict and Remove calls on frames 0..NumReplacerFrames - 1, all of them  *)
(* within replacer_size_.  The replacer is the one of bpm, whose pool is   *)
(* not used.                                                               *)
(***************************************************************************)
NumReplacerFrames == 3
MaxReplacerAccesses == 6

ReplacerFrames == 0..(NumReplacerFrames - 1)

ReplacerRunning == ~bpm.replacer.failed

RepRecordAccess(f) ==
  /\ OnlyBpm
  /\ ReplacerRunning
  /\ bpm.replacer.current_timestamp < MaxReplacerAccesses
  /\ bpm' = [bpm EXCEPT !.replacer = RecordAccess(@, f)]

RepSetEvictable(f, set_evictable) ==
  /\ OnlyBpm
  /\ ReplacerRunning
  /\ bpm' = [bpm EXCEPT !.replacer = SetEvictable(@, f, set_evictable)]

RepEvict ==
  /\ OnlyBpm
  /\ ReplacerRunning
  /\ bpm' = [bpm EXCEPT !.replacer = Evict(@)]

RepRemove(f) ==
  /\ OnlyBpm
  /\ ReplacerRunning
  /\ bpm' = [bpm EXCEPT !.replacer = ReplacerRemove(@, f)]

NextReplacer ==
  \/ \E f \in ReplacerFrames : RepRecordAccess(f)
  \/ \E f \in ReplacerFrames, set_evictable \in BOOLEAN : RepSetEvictable(f, set_evictable)
  \/ RepEvict
  \/ \E f \in ReplacerFrames : RepRemove(f)

\* The tracked frames whose evictable flag is set.
EvictableFrames(r) == {f \in DOMAIN r.node_store : r.node_store[f].evictable}

\* The evictable frames with fewer than k recorded accesses.
YoungFrames(r) == {f \in EvictableFrames(r) : Len(r.node_store[f].history) < r.k}

\* The timestamp of the earliest access kept for f.
OldestAccess(r, f) == r.node_store[f].history[Len(r.node_store[f].history)]

\* The frame the replacement policy names, -1 if no frame is evictable: the
\* earliest accessed of the evictable frames with fewer than k accesses,
\* else the evictable frame whose k-th most recent access is the earliest.
PolicyVictim(r) ==
  IF EvictableFrames(r) = {} THEN -1
  ELSE IF YoungFrames(r) # {}
  THEN CHOOSE f \in YoungFrames(r) :
         \A g \in YoungFrames(r) : OldestAccess(r, f) <= OldestAccess(r, g)
  ELSE CHOOSE f \in EvictableFrames(r) :
         \A g \in EvictableFrames(r) :
           BackK(r.node_store[f].history, r.k) <= BackK(r.node_store[g].history, r.k)

\* C18: Evict returns no frame if and only if no tracked frame is
\* evictable; otherwise it returns, among the evictable frames, the earliest
\* accessed one with fewer than K accesses if there is one, else the one
\* with the smallest K-th most recent timestamp.
C18_EvictFollowsPolicy ==
  ReplacerRunning => EvictVictim(bpm.replacer) = PolicyVictim(bpm.replacer)

\* C19: after any sequence of RecordAccess, SetEvictable, Evict and Remove
\* calls Size() is the number of tracked frames whose evictable flag is
\* set; in particular it never underflows and counts no frame that has been
\* evicted or removed.
C19_SizeCountsEvictableFrames ==
  ReplacerRunning =>
    ReplacerSize(bpm.replacer) = Cardinality(EvictableFrames(bpm.replacer))

\* C20: Remove of a tracked frame whose evictable flag is set deletes all
\* state of the frame and returns; Remove of a tracked frame whose flag is
\* not set is an assertion violation and removes nothing.
C20_RemoveNeedsEvictable ==
  ReplacerRunning =>
    \A f \in DOMAIN bpm.replacer.node_store :
      IF bpm.replacer.node_store[f].evictable
      THEN /\ ~ReplacerRemove(bpm.replacer, f).failed
           /\ f \notin DOMAIN ReplacerRemove(bpm.replacer, f).node_store
           /\ f \notin Range(ReplacerRemove(bpm.replacer, f).temp_pool)
           /\ \A i \in DOMAIN ReplacerRemove(bpm.replacer, f).cache_pool :
                ReplacerRemove(bpm.replacer, f).cache_pool[i][1] # f
      ELSE ReplacerRemove(bpm.replacer, f) = [bpm.replacer EXCEPT !.failed = TRUE]

(***************************************************************************)
(* BUFFER POOL MANAGER (buffer/buffer_pool_manager.cpp)                    *)
(*                                                                         *)
(* A buffer pool is a record                                               *)
(*   pool_size                                                             *)
(*   page_id, pin_count, is_dirty   the fields of pages_[frame]            *)
(*   data              the bytes of pages_[frame], as one number           *)
(*   disk              page id -> bytes written by the disk manager        *)
(*   rwlatch           the latch of pages_[frame]: 0 free, n > 0 held by   *)
(*                     n readers, -1 held by a writer                      *)
(*   page_table        resident page id -> frame                           *)
(*   free_list         sequence of frames                                  *)
(*   next_page_id                                                          *)
(*   replacer                                                              *)
(* Operations return the buffer pool after the call; the call's result is  *)
(* given by a companion operator.                                          *)
(***************************************************************************)
Frames(b) == 0..(b.pool_size - 1)

\* BufferPoolManager::BufferPoolManager
NewBufferPool(pool_size, replacer_k) ==
  [pool_size |-> pool_size,
   page_id |-> [f \in 0..(pool_size - 1) |-> INVALID_PAGE_ID],
   pin_count |-> [f \in 0..(pool_size - 1) |-> 0],
   is_dirty |-> [f \in 0..(pool_size - 1) |-> FALSE],
   data |-> [f \in 0..(pool_size - 1) |-> 0],
   disk |-> EmptyFn,
   rwlatch |-> [f \in 0..(pool_size - 1) |-> 0],
   page_table |-> EmptyFn,
   free_list |-> [i \in 1..pool_size |-> i - 1],
   next_page_id |-> 0,
   replacer |-> NewReplacer(replacer_k)]

Resident(b, p) == p \in DOMAIN b.page_table

\* DiskManager::ReadPage: the bytes last written for p, zeros if none.
DiskRead(disk, p) == IF p \in DOMAIN disk THEN disk[p] ELSE 0

\* NewPage and FetchPage return nullptr: no free frame and nothing evictable.
NoFrameAvailable(b) == Len(b.free_list) = 0 /\ ReplacerSize(b.replacer) = 0

\* The frame NewPage / FetchPage take for a page that is not resident.
PickFrame(b) ==
  IF Len(b.free_list) > 0 THEN b.free_list[1] ELSE EvictVictim(b.replacer)

\* TakeFrame with the victim's page-table entry left in place (line 59 /
\* 95 dropped).
TakeFrameKeepsEntry(b) ==
  IF Len(b.free_list) > 0
  THEN [b EXCEPT !.free_list = Tail(@)]
  ELSE LET f == EvictVictim(b.replacer) IN
       [b EXCEPT !.replacer = Evict(@),
                 !.disk = IF b.is_dirty[f] THEN FnPut(@, b.page_id[f], b.data[f]) ELSE @,
                 !.is_dirty[f] = FALSE,
                 !.data[f] = 0]

\* NewPage / FetchPage, lines 46-60 and 82-96: take the frame off the free
\* list, or evict a victim (writing it to disk when dirty, then ResetMemory)
\* and drop its table entry.
TakeFrame(b) ==
  IF Len(b.free_list) > 0
  THEN [b EXCEPT !.free_list = Tail(@)]
  ELSE LET f == EvictVictim(b.replacer) IN
       [b EXCEPT !.replacer = Evict(@),
                 !.disk = IF b.is_dirty[f] THEN FnPut(@, b.page_id[f], b.data[f]) ELSE @,
                 !.is_dirty[f] = FALSE,
                 !.data[f] = 0,
                 !.page_table = FnErase(@, b.page_id[f])]

\* NewPage / FetchPage, lines 63-67 and 97-102: install page p in frame f.
InstallPage(b, f, p) ==
  [b EXCEPT !.page_id[f] = p,
            !.page_table = FnPut(@, p, f),
            !.pin_count[f] = @ + 1,
            !.replacer = SetEvictable(RecordAccess(@, f), f, FALSE)]

\* BufferPoolManager::NewPage; the new page id is b.next_page_id.
NewPage(b) ==
  IF NoFrameAvailable(b) THEN b
  ELSE LET f == PickFrame(b)
           b1 == TakeFrame(b)
       IN InstallPage([b1 EXCEPT !.next_page_id = @ + 1], f, b.next_page_id)

\* BufferPoolManager::FetchPage
FetchPage(b, p) ==
  IF Resident(b, p)
  THEN [b EXCEPT !.pin_count[b.page_table[p]] = @ + 1]
  ELSE IF NoFrameAvailable(b) THEN b
       ELSE [InstallPage(TakeFrame(b), PickFrame(b), p) EXCEPT
               !.data[PickFrame(b)] = DiskRead(TakeFrame(b).disk, p)]

\* BufferPoolManager::UnpinPage
UnpinPage(b, p, dirty) ==
  IF ~Resident(b, p) THEN b
  ELSE LET f == b.page_table[p] IN
       IF b.pin_count[f] <= 0 THEN b
       ELSE [b EXCEPT !.pin_count[f] = @ - 1,
                      !.replacer = IF b.pin_count[f] - 1 = 0
                                   THEN SetEvictable(@, f, TRUE) ELSE @,
                      !.is_dirty[f] = dirty]

\* BufferPoolManager::FlushPage
FlushPage(b, p) ==
  IF ~Resident(b, p) THEN b
  ELSE [b EXCEPT !.disk = FnPut(@, p, b.data[b.page_table[p]]),
                 !.is_dirty[b.page_table[p]] = FALSE]

\* BufferPoolManager::DeletePage returns true.
DeletePageOk(b, p) == ~Resident(b, p) \/ b.pin_count[b.page_table[p]] <= 0

\* BufferPoolManager::DeletePage.  When the replacer's BUSTUB_ENSURE fails
\* the call does not return: the statements after replacer_->Remove are not
\* executed.
DeletePage(b, p) ==
  IF ~Resident(b, p) THEN b
  ELSE LET f == b.page_table[p] IN
       IF b.pin_count[f] > 0 THEN b
       ELSE LET r == ReplacerRemove(b.replacer, f) IN
            IF r.failed
            THEN [b EXCEPT !.page_table = FnErase(@, p), !.replacer = r]
            ELSE [b EXCEPT !.page_table = FnErase(@, p),
                           !.replacer = r,
                           !.free_list = Append(@, f),
                           !.data[f] = 0,
                           !.pin_count[f] = 0,
                           !.is_dirty[f] = FALSE,
                           !.page_id[f] = INVALID_PAGE_ID]

(***************************************************************************)
(* Buffer pool state machine: any sequence of calls by one caller.         *)
(***************************************************************************)
BpmPoolSize == 2
ReplacerK == 2
\* Caps on the counters that grow without bound.
MaxPages == 3
MaxAccesses == 5
MaxPin == 2
\* The bytes a caller can write into a page are 1..NumBytes; 0 is a page of
\* zeros.
NumBytes == 1

InitBpm == bpm = NewBufferPool(BpmPoolSize, ReplacerK)

\* The value of bpm in the specifications of the other subsystems.
IdleBpm == bpm = NewBufferPool(0, ReplacerK)

BpmRunning == ~bpm.replacer.failed

BpmNewPage ==
  /\ OnlyBpm
  /\ BpmRunning
  /\ bpm.next_page_id < MaxPages
  /\ bpm.replacer.current_timestamp < MaxAccesses
  /\ bpm' = NewPage(bpm)

BpmFetchPage(p) ==
  /\ OnlyBpm
  /\ BpmRunning
  /\ p < bpm.next_page_id
  /\ IF Resident(bpm, p) THEN bpm.pin_count[bpm.page_table[p]] < MaxPin
     ELSE bpm.replacer.current_timestamp < MaxAccesses
  /\ bpm' = FetchPage(bpm, p)

BpmUnpinPage(p, dirty) ==
  /\ OnlyBpm
  /\ BpmRunning
  /\ p < bpm.next_page_id
  /\ bpm' = UnpinPage(bpm, p, dirty)

\* A holder of a pin on p writes the bytes v through Page::GetData and
\* releases its pin with is_dirty = true.
BpmModifyPage(p, v) ==
  /\ OnlyBpm
  /\ BpmRunning
  /\ Resident(bpm, p)
  /\ bpm.pin_count[bpm.page_table[p]] > 0
  /\ bpm' = UnpinPage([bpm EXCEPT !.data[bpm.page_table[p]] = v], p, TRUE)

BpmFlushPage(p) ==
  /\ OnlyBpm
  /\ BpmRunning
  /\ p < bpm.next_page_id
  /\ bpm' = FlushPage(bpm, p)

BpmDeletePage(p) ==
  /\ OnlyBpm
  /\ BpmRunning
  /\ p < bpm.next_page_id
  /\ bpm' = DeletePage(bpm, p)

NextBpm ==
  \/ BpmNewPage
  \/ \E p \in 0..(MaxPages - 1) : BpmFetchPage(p)
  \/ \E p \in 0..(MaxPages - 1), dirty \in BOOLEAN : BpmUnpinPage(p, dirty)
  \/ \E p \in 0..(MaxPages - 1), v \in 1..NumBytes : BpmModifyPage(p, v)
  \/ \E p \in 0..(MaxPages - 1) : BpmFlushPage(p)
  \/ \E p \in 0..(MaxPages - 1) : BpmDeletePage(p)

\* BufferPoolManager::FlushAllPages: for every entry of the page table the
\* page written is pages_[page id]: the frame with the index of the page id.
\* A page id that is no frame index reads past the array (undefined
\* behaviour): the bytes written are any bytes (garbage) and the store to
\* is_dirty_ lands outside the pool, where it may end the process (crash).
FlushAllPages(b, garbage, crash) ==
  LET pids == DOMAIN b.page_table IN
  [b EXCEPT !.disk = [p \in (DOMAIN b.disk) \cup pids |->
                        IF p \notin pids THEN b.disk[p]
                        ELSE IF p \in Frames(b) THEN b.data[p]
                        ELSE garbage],
            !.is_dirty = [f \in Frames(b) |-> IF f \in pids THEN FALSE ELSE b.is_dirty[f]],
            !.replacer.failed = @ \/ (crash /\ pids \ Frames(b) # {})]

\* FlushPage called on every page of the set ps.
RECURSIVE FlushEach(_, _)
FlushEach(b, ps) ==
  IF ps = {} THEN b ELSE FlushEach(FlushPage(b, MinOf(ps)), ps \ {MinOf(ps)})

BpmFlushAllPages ==
  /\ OnlyBpm
  /\ BpmRunning
  /\ \E garbage \in 0..NumBytes, crash \in BOOLEAN :
       bpm' = FlushAllPages(bpm, garbage, crash)

NextBpmFlush == NextBpm \/ BpmFlushAllPages

\* C40: a FlushAllPages call writes the bytes of every resident page's frame
\* to disk under its page id and clears that frame's dirty flag: it leaves
\* the pool as FlushPage called on every resident page does.
C40_FlushAllIsFlushEach ==
  [][BpmFlushAllPages => bpm' = FlushEach(bpm, DOMAIN bpm.page_table)]_vars

\* C3: in every state reachable by NewPage, FetchPage, UnpinPage, FlushPage
\* and DeletePage, pin counts are >= 0 and a frame holding a page is marked
\* evictable in the replacer if and only if its pin count is 0 (so FetchPage
\* of a resident page with pin count 0 makes its frame non-evictable).
C3_EvictableIffUnpinned ==
  \A p \in DOMAIN bpm.page_table :
    LET f == bpm.page_table[p] IN
    /\ bpm.pin_count[f] >= 0
    /\ f \in DOMAIN bpm.replacer.node_store
    /\ bpm.replacer.node_store[f].evictable <=> (bpm.pin_count[f] = 0)

\* The frames of the free list.
FreeFrames(b) == Range(b.free_list)

\* C14: after any sequence of NewPage, FetchPage, UnpinPage, FlushPage and
\* DeletePage calls, |page_table| + |free_list| = pool_size, the page-table
\* entries map to distinct frames that are not in the free list, and the
\* page id stored in the frame of an entry is the entry's page id.
C14_PageTablePartitionsFrames ==
  BpmRunning =>
    /\ Cardinality(DOMAIN bpm.page_table) + Len(bpm.free_list) = bpm.pool_size
    /\ \A p, q \in DOMAIN bpm.page_table :
         p # q => bpm.page_table[p] # bpm.page_table[q]
    /\ \A p \in DOMAIN bpm.page_table :
         /\ bpm.page_table[p] \in Frames(bpm) \ FreeFrames(bpm)
         /\ bpm.page_id[bpm.page_table[p]] = p

\* Every frame is occupied, a page has been evicted to make room for
\* another, and one of the resident pages is pinned, the other not.
C14_Witness ==
  /\ BpmRunning
  /\ Len(bpm.free_list) = 0
  /\ bpm.next_page_id > bpm.pool_size
  /\ \E p \in 0..(bpm.next_page_id - 1) : ~Resident(bpm, p)
  /\ \E p, q \in DOMAIN bpm.page_table :
       bpm.pin_count[bpm.page_table[p]] > 0 /\ bpm.pin_count[bpm.page_table[q]] = 0

\* C15: UnpinPage sets the dirty flag when is_dirty is true and leaves it
\* unchanged when is_dirty is false: a resident page whose bytes differ from
\* its copy on disk stays dirty, whatever UnpinPage(p, false) calls follow
\* the unpin with is_dirty = true, so that its eviction writes it to disk
\* and a later FetchPage reads the modified bytes.
C15_ModifiedPageStaysDirty ==
  \A p \in DOMAIN bpm.page_table :
    bpm.data[bpm.page_table[p]] # DiskRead(bpm.disk, p)
      => bpm.is_dirty[bpm.page_table[p]]

\* The pool d is pool b after a successful DeletePage of the page in frame
\* f: the frame is reset, unknown to the replacer and last in the free list.
FrameFreed(b, d, f) ==
  /\ ~d.replacer.failed
  /\ d.pin_count[f] = 0
  /\ ~d.is_dirty[f]
  /\ d.page_id[f] = INVALID_PAGE_ID
  /\ f \notin DOMAIN d.replacer.node_store
  /\ d.free_list = Append(b.free_list, f)

\* C17: DeletePage of a resident page with pin count > 0 returns false and
\* changes nothing; with pin count 0 it returns true, the page leaves the
\* page table, and its frame is reset (pin count 0, clean, INVALID_PAGE_ID),
\* forgotten by the replacer and appended to the free list.
C17_DeletePageFreesFrame ==
  BpmRunning =>
    \A p \in DOMAIN bpm.page_table :
      IF bpm.pin_count[bpm.page_table[p]] > 0
      THEN ~DeletePageOk(bpm, p) /\ DeletePage(bpm, p) = bpm
      ELSE /\ DeletePageOk(bpm, p)
           /\ ~Resident(DeletePage(bpm, p), p)
           /\ FrameFreed(bpm, DeletePage(bpm, p), bpm.page_table[p])

(***************************************************************************)
(* Guarded fetches: FetchPageBasic, FetchPageRead and FetchPageWrite, and  *)
(* the release of the guards they return.                                  *)
(***************************************************************************)
\* The page_ of a guard built as {this, nullptr}.
NullFrame == -1

\* Page::RLatch / Page::WLatch return when the latch can be taken.
CanRLatch(b, f) == b.rwlatch[f] >= 0
CanWLatch(b, f) == b.rwlatch[f] = 0

\* BufferPoolManager::FetchPageBasic: [b, page], the pool after the call
\* and the frame the guard holds.
FetchPageBasic(b, p) ==
  [b |-> FetchPage(b, p),
   page |-> IF Resident(b, p) THEN b.page_table[p]
            ELSE IF NoFrameAvailable(b) THEN NullFrame
            ELSE PickFrame(b)]

\* BufferPoolManager::FetchPageRead
FetchPageReadGuard(b, p) ==
  IF ~Resident(b, p) THEN [b |-> b, page |-> NullFrame]
  ELSE [b |-> FetchPage([b EXCEPT !.rwlatch[b.page_table[p]] = @ + 1], p),
        page |-> b.page_table[p]]

\* BufferPoolManager::FetchPageWrite
FetchPageWriteGuard(b, p) ==
  IF ~Resident(b, p) THEN [b |-> b, page |-> NullFrame]
  ELSE [b |-> FetchPage([b EXCEPT !.rwlatch[b.page_table[p]] = -1], p),
        page |-> b.page_table[p]]

BpmFetchPageBasic(p) ==
  /\ OnlyBpm
  /\ BpmRunning
  /\ p < bpm.next_page_id
  /\ IF Resident(bpm, p) THEN bpm.pin_count[bpm.page_table[p]] < MaxPin
     ELSE bpm.replacer.current_timestamp < MaxAccesses
  /\ bpm' = FetchPageBasic(bpm, p).b

BpmFetchPageRead(p) ==
  /\ OnlyBpm
  /\ BpmRunning
  /\ p < bpm.next_page_id
  /\ Resident(bpm, p) =>
       /\ bpm.pin_count[bpm.page_table[p]] < MaxPin
       /\ bpm.rwlatch[bpm.page_table[p]] < MaxPin
       /\ CanRLatch(bpm, bpm.page_table[p])
  /\ bpm' = FetchPageReadGuard(bpm, p).b

BpmFetchPageWrite(p) ==
  /\ OnlyBpm
  /\ BpmRunning
  /\ p < bpm.next_page_id
  /\ Resident(bpm, p) =>
       /\ bpm.pin_count[bpm.page_table[p]] < MaxPin
       /\ CanWLatch(bpm, bpm.page_table[p])
  /\ bpm' = FetchPageWriteGuard(bpm, p).b

\* ReadPageGuard::Drop of a guard on frame f: RUnlatch, then UnpinPage of
\* the page id the frame holds now.
BpmDropRead(f) ==
  /\ OnlyBpm
  /\ BpmRunning
  /\ f \in Frames(bpm)
  /\ bpm.rwlatch[f] > 0
  /\ bpm' = UnpinPage([bpm EXCEPT !.rwlatch[f] = @ - 1], bpm.page_id[f], FALSE)

\* WritePageGuard::Drop of the guard on frame f, with the guard's is_dirty_.
BpmDropWrite(f, is_dirty) ==
  /\ OnlyBpm
  /\ BpmRunning
  /\ f \in Frames(bpm)
  /\ bpm.rwlatch[f] = -1
  /\ bpm' = UnpinPage([bpm EXCEPT !.rwlatch[f] = 0], bpm.page_id[f], is_dirty)

NextBpmGuards ==
  \/ BpmNewPage
  \/ \E p \in 0..(MaxPages - 1) : BpmFetchPageBasic(p)
  \/ \E p \in 0..(MaxPages - 1) : BpmFetchPageRead(p)
  \/ \E p \in 0..(MaxPages - 1) : BpmFetchPageWrite(p)
  \/ \E p \in 0..(MaxPages - 1), dirty \in BOOLEAN : BpmUnpinPage(p, dirty)
  \/ \E f \in 0..(BpmPoolSize - 1) : BpmDropRead(f)
  \/ \E f \in 0..(BpmPoolSize - 1), dirty \in BOOLEAN : BpmDropWrite(f, dirty)

\* The guard r returned for page p holds a pin on it and the bytes read from
\* disk; latched is the state of the latch a guard of its kind holds.
HoldsLoadedPage(r, p, latched(_)) ==
  /\ r.page # NullFrame
  /\ Resident(r.b, p)
  /\ r.b.page_table[p] = r.page
  /\ r.b.pin_count[r.page] >= 1
  /\ r.b.data[r.page] = DiskRead(bpm.disk, p)
  /\ latched(r.b.rwlatch[r.page])

\* C16: FetchPageBasic, FetchPageRead and FetchPageWrite of a page that is
\* not resident return, when a free or evictable frame exists, a guard that
\* holds a pin (and the read or write latch) on the page loaded from disk;
\* the guard is empty only when no frame can be obtained.
C16_GuardedFetchLoadsPage ==
  BpmRunning =>
    \A p \in 0..(bpm.next_page_id - 1) :
      ~Resident(bpm, p) =>
        IF NoFrameAvailable(bpm)
        THEN /\ FetchPageBasic(bpm, p).page = NullFrame
             /\ FetchPageReadGuard(bpm, p).page = NullFrame
             /\ FetchPageWriteGuard(bpm, p).page = NullFrame
        ELSE /\ HoldsLoadedPage(FetchPageBasic(bpm, p), p, LAMBDA l : TRUE)
             /\ HoldsLoadedPage(FetchPageReadGuard(bpm, p), p, LAMBDA l : l > 0)
             /\ HoldsLoadedPage(FetchPageWriteGuard(bpm, p), p, LAMBDA l : l = -1)

\* The same for FetchPageBasic alone.
BasicFetchLoadsPage ==
  BpmRunning =>
    \A p \in 0..(bpm.next_page_id - 1) :
      ~Resident(bpm, p) =>
        IF NoFrameAvailable(bpm)
        THEN FetchPageBasic(bpm, p).page = NullFrame
        ELSE HoldsLoadedPage(FetchPageBasic(bpm, p), p, LAMBDA l : TRUE)

(***************************************************************************)
(* PAGE GUARDS                                                             *)
(***************************************************************************)
\* Number of guard objects and of pages they can hold.
NumGuards == 3
NumGuardPages == 2

NoPage == 0
GuardPages == 1..NumGuardPages
GuardIds == 1..NumGuards
GuardKinds == {"basic", "read", "write"}

\* BufferPoolManager::UnpinPage as a guard sees it: one unpin of page p.
GuardUnpin(pins, p) == [pins EXCEPT ![p] = @ - 1]

\* Page::RUnlatch / Page::WUnlatch: one release of the page latch.
GuardUnlatch(latches, p) == [latches EXCEPT ![p] = @ - 1]

\* The release half of Drop() and of move assignment for a guard of class k
\* holding page p: [pin, readers, writers] after it.
ReleaseHeld(k, p, pin, rd, wr) ==
  IF p = NoPage THEN [pin |-> pin, rd |-> rd, wr |-> wr]
  ELSE [pin |-> GuardUnpin(pin, p),
        rd  |-> IF k = "read" THEN GuardUnlatch(rd, p) ELSE rd,
        wr  |-> IF k = "write" THEN GuardUnlatch(wr, p) ELSE wr]

NoGuardOp == [op |-> "other", g |-> 0, that |-> 0, page |-> NoPage]

InitGuard ==
  /\ galive = [g \in GuardIds |-> FALSE]
  /\ gkind = [g \in GuardIds |-> "basic"]
  /\ gpage = [g \in GuardIds |-> NoPage]
  /\ gpin = [p \in GuardPages |-> 0]
  /\ greaders = [p \in GuardPages |-> 0]
  /\ gwriters = [p \in GuardPages |-> 0]
  /\ gop = NoGuardOp

\* BufferPoolManager::FetchPageBasic/Read/Write hand out a guard {bpm, page}
\* of class k: the page is pinned and, for read/write guards, latched.
\* p = NoPage is the empty guard {bpm, nullptr}.
GuardAcquire(g, k, p) ==
  /\ OnlyGuard
  /\ ~galive[g]
  /\ p # NoPage /\ k = "read" => gwriters[p] = 0
  /\ p # NoPage /\ k = "write" => gwriters[p] = 0 /\ greaders[p] = 0
  /\ galive' = [galive EXCEPT ![g] = TRUE]
  /\ gkind' = [gkind EXCEPT ![g] = k]
  /\ gpage' = [gpage EXCEPT ![g] = p]
  /\ gpin' = IF p = NoPage THEN gpin ELSE [gpin EXCEPT ![p] = @ + 1]
  /\ greaders' = IF p # NoPage /\ k = "read"
                 THEN [greaders EXCEPT ![p] = @ + 1] ELSE greaders
  /\ gwriters' = IF p # NoPage /\ k = "write"
                 THEN [gwriters EXCEPT ![p] = @ + 1] ELSE gwriters
  /\ gop' = NoGuardOp

\* Guard(Guard &&that): a new object g of that's class takes over its page.
GuardMoveConstruct(g, that) ==
  /\ OnlyGuard
  /\ ~galive[g] /\ galive[that] /\ g # that
  /\ galive' = [galive EXCEPT ![g] = TRUE]
  /\ gkind' = [gkind EXCEPT ![g] = gkind[that]]
  /\ gpage' = [gpage EXCEPT ![g] = gpage[that], ![that] = NoPage]
  /\ gop' = NoGuardOp
  /\ UNCHANGED <<gpin, greaders, gwriters>>

\* Mutant of operator=: the page held by the target is not released.
GuardMoveAssignLeaks(g, that) ==
  /\ OnlyGuard
  /\ galive[g] /\ galive[that]
  /\ gkind[g] = gkind[that]
  /\ gpage' = IF g # that
              THEN [gpage EXCEPT ![g] = gpage[that], ![that] = NoPage] ELSE gpage
  /\ gop' = [op |-> "assign", g |-> g, that |-> that, page |-> gpage[g]]
  /\ UNCHANGED <<galive, gkind, gpin, greaders, gwriters>>

\* operator=(Guard &&that); g = that is self-assignment.
GuardMoveAssign(g, that) ==
  /\ OnlyGuard
  /\ galive[g] /\ galive[that]
  /\ gkind[g] = gkind[that]
  /\ IF g # that
     THEN LET r == ReleaseHeld(gkind[g], gpage[g], gpin, greaders, gwriters)
          IN /\ gpin' = r.pin
             /\ greaders' = r.rd
             /\ gwriters' = r.wr
             /\ gpage' = [gpage EXCEPT ![g] = gpage[that], ![that] = NoPage]
     ELSE UNCHANGED <<gpage, gpin, greaders, gwriters>>
  /\ gop' = [op |-> "assign", g |-> g, that |-> that, page |-> gpage[g]]
  /\ UNCHANGED <<galive, gkind>>

\* Drop(): release what is held, leave the guard empty.
GuardDrop(g) ==
  /\ OnlyGuard
  /\ galive[g]
  /\ LET r == ReleaseHeld(gkind[g], gpage[g], gpin, greaders, gwriters)
     IN /\ gpin' = r.pin
        /\ greaders' = r.rd
        /\ gwriters' = r.wr
  /\ gpage' = [gpage EXCEPT ![g] = NoPage]
  /\ gop' = NoGuardOp
  /\ UNCHANGED <<galive, gkind>>

\* ~Guard(): Drop(); for read/write guards the destructor of the member
\* guard_ runs Drop() once more, on the now empty BasicPageGuard.
GuardDestroy(g) ==
  /\ OnlyGuard
  /\ galive[g]
  /\ LET r1 == ReleaseHeld(gkind[g], gpage[g], gpin, greaders, gwriters)
         r2 == ReleaseHeld("basic", NoPage, r1.pin, r1.rd, r1.wr)
     IN /\ gpin' = r2.pin
        /\ greaders' = r2.rd
        /\ gwriters' = r2.wr
  /\ gpage' = [gpage EXCEPT ![g] = NoPage]
  /\ gkind' = [gkind EXCEPT ![g] = "basic"]
  /\ galive' = [galive EXCEPT ![g] = FALSE]
  /\ gop' = NoGuardOp

NextGuard ==
  \/ \E g \in GuardIds, k \in GuardKinds, p \in GuardPages \cup {NoPage} :
       GuardAcquire(g, k, p)
  \/ \E g \in GuardIds, that \in GuardIds : GuardMoveConstruct(g, that)
  \/ \E g \in GuardIds, that \in GuardIds : GuardMoveAssign(g, that)
  \/ \E g \in GuardIds : GuardDrop(g)
  \/ \E g \in GuardIds : GuardDestroy(g)

\* The live guards of class k (or of any class) that own page p.
GuardHolders(p, k) ==
  {g \in GuardIds : galive[g] /\ gpage[g] = p /\ (k = "any" \/ gkind[g] = k)}

\* C4: every acquired page is unpinned exactly once and (read/write guards)
\* unlatched exactly once, under any sequence of move construction, move
\* assignment, Drop and destruction: at every moment the pins and latches
\* still outstanding on a page are exactly those of the live guards that own
\* it (so a moved-from, dropped or destroyed guard has released nothing more,
\* and an overwritten guard has released its page), and a self move
\* assignment leaves the guard holding what it held.
C4_GuardsReleaseExactlyOnce ==
  /\ \A p \in GuardPages :
       /\ gpin[p] = Cardinality(GuardHolders(p, "any"))
       /\ greaders[p] = Cardinality(GuardHolders(p, "read"))
       /\ gwriters[p] = Cardinality(GuardHolders(p, "write"))
  /\ \A g \in GuardIds : ~galive[g] => gpage[g] = NoPage
  /\ (gop.op = "assign" /\ gop.g = gop.that) => gpage[gop.g] = gop.page
  /\ (gop.op = "assign" /\ gop.g # gop.that) => gpage[gop.that] = NoPage

\* C4 witness: a move assignment overwrote a read guard that held a page
\* with a guard holding another page, while one more guard still owns the
\* overwritten guard's old page.
C4_Witness ==
  /\ gop.op = "assign" /\ gop.g # gop.that
  /\ gop.page # NoPage
  /\ gpage[gop.g] # NoPage /\ gpage[gop.g] # gop.page
  /\ gkind[gop.g] = "read"
  /\ gpin[gop.page] = 1

(***************************************************************************)
(* LOCK MANAGER (concurrency/lock_manager.cpp)                             *)
(*                                                                         *)
(* A lock request is [txn_id, lock_mode, granted]; a lock request queue is *)
(* [request_queue, upgrading].  table_lock_map and row_lock_map hold the   *)
(* queues created so far.  Each transaction is run by one thread, whose    *)
(* position is tpc:                                                        *)
(*   idle     between calls                                                *)
(*   prewait  in LockTable/LockRow, GrantLock returned false, the queue    *)
(*            latch is held and cv_.wait has not been entered yet          *)
(*   waiting  inside cv_.wait (the queue latch is released)                *)
(*   woken    notified, about to re-acquire the queue latch                *)
(*   threw    a call threw TransactionAbortException; the caller aborts    *)
(*            the transaction next                                         *)
(*   done     the transaction was committed or aborted by its manager      *)
(* Every other stretch of a call runs under the queue latch and is one     *)
(* step.  The deadlock detector is a thread of its own (dpc).              *)
(***************************************************************************)
NumTxns == 2
NumTables == 1
NumRows == 2
\* Caps on the LockTable/LockRow calls of one transaction: when callers use
\* every lock mode, and when they use the modes of the deadlock scenario.
MaxLockCalls == 2
MaxDeadlockCalls == 3

INVALID_TXN_ID == -1

Txns == 1..NumTxns
Tables == 1..NumTables
Rows == 1..NumRows
\* The table a row belongs to.
RowTable(rid) == ((rid - 1) % NumTables) + 1

LockModes == {"S", "X", "IS", "IX", "SIX"}
IsolationLevels == {"READ_UNCOMMITTED", "READ_COMMITTED", "REPEATABLE_READ"}

\* A queue is named by the map that holds it and its key.
TableRes(oid) == <<"table", oid>>
RowRes(rid) == <<"row", rid>>


\* Compatibility matrix of the lock modes.
Compatible(a, b) ==
  \/ a = "IS" /\ b \in {"IS", "IX", "S", "SIX"}
  \/ a = "IX" /\ b \in {"IS", "IX"}
  \/ a = "S" /\ b \in {"IS", "S"}
  \/ a = "SIX" /\ b = "IS"

\* LockManager::CanLockUpgrade: the upgrade lattice.
CanLockUpgrade(cur, req) ==
  \/ cur = "IS" /\ req \in {"S", "X", "IX", "SIX"}
  \/ cur = "S" /\ req \in {"X", "SIX"}
  \/ cur = "IX" /\ req \in {"X", "SIX"}
  \/ cur = "SIX" /\ req = "X"

\* A request that enters its queue already granted.
NewLockRequestGranted(t, mode) == [txn_id |-> t, lock_mode |-> mode, granted |-> TRUE]

\* std::make_shared<LockRequest>(txn_id, lock_mode, oid): granted_ is false.
NewLockRequest(t, mode) == [txn_id |-> t, lock_mode |-> mode, granted |-> FALSE]

\* std::make_shared<LockRequestQueue>()
NewLockRequestQueue == [request_queue |-> <<>>, upgrading |-> INVALID_TXN_ID]

\* Index of the first request of transaction t in a request queue, 0 if none.
ReqIndex(rq, t) ==
  IF \E i \in DOMAIN rq : rq[i].txn_id = t
  THEN MinOf({i \in DOMAIN rq : rq[i].txn_id = t})
  ELSE 0

\* Index of the first ungranted request, Len + 1 if every request is granted.
FirstUngranted(rq) ==
  IF \E i \in DOMAIN rq : ~rq[i].granted
  THEN MinOf({i \in DOMAIN rq : ~rq[i].granted})
  ELSE Len(rq) + 1

\* The loop of LockTable/LockRow that erases the first request of t.
EraseRequest(rq, t) ==
  IF ReqIndex(rq, t) = 0 THEN rq ELSE RemoveAt(rq, ReqIndex(rq, t))

\* Admission rule: request i of queue q can be granted.
Grantable(q, i) ==
  LET rq == q.request_queue IN
  /\ \A j \in DOMAIN rq :
       (j # i /\ rq[j].granted) => Compatible(rq[j].lock_mode, rq[i].lock_mode)
  /\ \/ q.upgrading = INVALID_TXN_ID
     \/ q.upgrading = rq[i].txn_id
     \/ \E j \in DOMAIN rq : rq[j].txn_id = q.upgrading /\ ~rq[j].granted /\ i < j

\* LockManager::GrantLock(txn, queue): grants the request of t if the
\* admission rule allows it; [ok, q].
GrantLock(q, t) ==
  LET i == ReqIndex(q.request_queue, t) IN
  IF i = 0 THEN [ok |-> FALSE, q |-> q]
  ELSE IF q.request_queue[i].granted THEN [ok |-> TRUE, q |-> q]
  ELSE IF Grantable(q, i)
       THEN [ok |-> TRUE, q |-> [q EXCEPT !.request_queue[i].granted = TRUE]]
       ELSE [ok |-> FALSE, q |-> q]

\* LockManager::GrantNewLocksIfPossible: head-first, grant the ungranted
\* requests up to the first one that cannot be granted; upgrading is cleared
\* when the upgrading request is granted.
RECURSIVE GrantFrom(_, _)
GrantFrom(q, i) ==
  IF i > Len(q.request_queue) THEN q
  ELSE LET r == q.request_queue[i]
           cleared == IF q.upgrading = r.txn_id THEN INVALID_TXN_ID ELSE q.upgrading
       IN IF r.granted
          THEN GrantFrom([q EXCEPT !.upgrading = cleared], i + 1)
          ELSE IF Grantable(q, i)
               THEN GrantFrom([q EXCEPT !.request_queue[i].granted = TRUE,
                                        !.upgrading = cleared], i + 1)
               ELSE q

GrantNewLocksIfPossible(q) == GrantFrom(q, 1)

\* LockManager::ChangTxnState: the 2PL transition an unlock causes.
ChangTxnState(state, iso, mode) ==
  IF /\ state = "GROWING"
     /\ \/ iso = "REPEATABLE_READ" /\ mode \in {"S", "X"}
        \/ iso \in {"READ_COMMITTED", "READ_UNCOMMITTED"} /\ mode = "X"
  THEN "SHRINKING"
  ELSE state

\* LockManager::CheckAppropriateLockOnTable, over the table lock set of the
\* transaction (a set of <<mode, oid>>).
CheckAppropriateLockOnTable(tls, oid, row_mode) ==
  IF row_mode = "X"
  THEN \E m \in {"IX", "X"} : <<m, oid>> \in tls
  ELSE \E m \in LockModes : <<m, oid>> \in tls

\* LockManager::IsTableLockExist / IsRowLockExist / CanTableUnlock, over the
\* lock sets of the transaction (row lock set: <<mode, oid, rid>>).
IsTableLockExist(tls, oid) == \E m \in LockModes : <<m, oid>> \in tls
IsRowLockExist(rls, oid, rid) == \E m \in LockModes : <<m, oid, rid>> \in rls
CanTableUnlock(rls, oid) == ~\E e \in rls : e[2] = oid

\* Lines 226-258: the state and isolation level checks of LockTable.  "OK"
\* or the AbortReason thrown.
TableLockPolicy(state, iso, mode) ==
  IF state = "SHRINKING" /\ iso = "REPEATABLE_READ" THEN "LOCK_ON_SHRINKING"
  ELSE IF state = "SHRINKING" /\ iso = "READ_COMMITTED" /\ mode \in {"X", "IX", "SIX"}
  THEN "LOCK_ON_SHRINKING"
  ELSE IF state = "SHRINKING" /\ iso = "READ_UNCOMMITTED"
  THEN IF mode \in {"X", "IX"} THEN "LOCK_ON_SHRINKING"
       ELSE "LOCK_SHARED_ON_READ_UNCOMMITTED"
  ELSE IF state = "GROWING" /\ iso = "READ_UNCOMMITTED" /\ mode \in {"S", "IS", "SIX"}
  THEN "LOCK_SHARED_ON_READ_UNCOMMITTED"
  ELSE "OK"

\* Lines 389-428: the checks of LockRow, in the order of the code.
RowLockPolicy(state, iso, mode, tls, oid) ==
  IF mode \in {"IS", "SIX", "IX"} THEN "ATTEMPTED_INTENTION_LOCK_ON_ROW"
  ELSE IF state = "SHRINKING" /\ iso = "REPEATABLE_READ" THEN "LOCK_ON_SHRINKING"
  ELSE IF state = "SHRINKING" /\ iso = "READ_COMMITTED" /\ mode = "X"
  THEN "LOCK_ON_SHRINKING"
  ELSE IF state = "SHRINKING" /\ iso = "READ_UNCOMMITTED"
  THEN IF mode = "X" THEN "LOCK_ON_SHRINKING"
       ELSE "LOCK_SHARED_ON_READ_UNCOMMITTED"
  ELSE IF state = "GROWING" /\ iso = "READ_UNCOMMITTED" /\ mode = "S"
  THEN "LOCK_SHARED_ON_READ_UNCOMMITTED"
  ELSE IF ~CheckAppropriateLockOnTable(tls, oid, mode) THEN "TABLE_LOCK_NOT_PRESENT"
  ELSE "OK"

\* Lines 281-330 (LockTable) and 450-499 (LockRow): the upgrade check and the
\* insertion of the new request.  [outcome, q, old]: outcome is "queued",
\* "upgrade", "same" (return false), "assert" (the assertion on granted_
\* fails) or the AbortReason thrown; old is the mode of the erased request.
EnqueueRequest(q, t, mode) ==
  LET rq == q.request_queue
      i == ReqIndex(rq, t)
  IN IF i = 0
     THEN [outcome |-> "queued", old |-> "none",
           q |-> [q EXCEPT !.request_queue = Append(rq, NewLockRequest(t, mode))]]
     ELSE IF ~rq[i].granted THEN [outcome |-> "assert", old |-> "none", q |-> q]
     ELSE IF rq[i].lock_mode = mode THEN [outcome |-> "same", old |-> "none", q |-> q]
     ELSE IF q.upgrading # INVALID_TXN_ID
     THEN [outcome |-> "UPGRADE_CONFLICT", old |-> "none", q |-> q]
     ELSE IF ~CanLockUpgrade(rq[i].lock_mode, mode)
     THEN [outcome |-> "INCOMPATIBLE_UPGRADE", old |-> "none", q |-> q]
     ELSE LET rest == RemoveAt(rq, i) IN
          [outcome |-> "upgrade", old |-> rq[i].lock_mode,
           q |-> [request_queue |->
                    InsertAt(rest, FirstUngranted(rest), NewLockRequest(t, mode)),
                  upgrading |-> t]]

\* Lines 332-352 (LockTable) and 501-521 (LockRow) from a GrantLock call on:
\* [ret, q] with ret "wait" (GrantLock returned false), "false" (granted,
\* but the transaction is ABORTED: the request stays in the queue) or "true".
TryAcquire(q, t, state) ==
  LET g == GrantLock(q, t) IN
  IF ~g.ok THEN [ret |-> "wait", q |-> q]
  ELSE IF state = "ABORTED" THEN [ret |-> "false", q |-> g.q]
  ELSE [ret |-> "true", q |-> GrantNewLocksIfPossible(g.q)]

\* Lines 626-641 and 645-660: the edges one queue adds to the wait-for
\* graph, from every request at or after the first ungranted one to every
\* request before it.
QueueEdges(rq) ==
  {<<rq[j].txn_id, rq[i].txn_id>> :
     <<j, i>> \in {p \in (DOMAIN rq) \X (DOMAIN rq) :
                     p[1] >= FirstUngranted(rq) /\ p[2] < FirstUngranted(rq)}}

\* LockManager::AddEdge applied to a set of edges: waits_for and txn_set.
GraphOf(edges) == [t \in Txns |-> {e[2] : e \in {d \in edges : d[1] = t}}]
SourcesOf(edges) == {e[1] : e \in edges}

\* LockManager::FindCycle: depth-first search from u along the current path
\* on_path, neighbours in ascending order; on a back edge the highest
\* transaction of the path, INVALID_TXN_ID if no cycle is reachable.
RECURSIVE FindCycle(_, _, _)
FindCycle(g, u, on_path) ==
  LET path == on_path \cup {u}
      hits == {v \in g[u] : v \in path \/ FindCycle(g, v, path) # INVALID_TXN_ID}
  IN IF hits = {} THEN INVALID_TXN_ID
     ELSE IF MinOf(hits) \in path THEN MaxOf(path)
     ELSE FindCycle(g, MinOf(hits), path)

\* LockManager::HasCycle with HasCycleHelper: [found, txn_id, txn_set].
RECURSIVE HasCycle(_, _)
HasCycle(g, ts) ==
  IF ts = {} THEN [found |-> FALSE, txn_id |-> INVALID_TXN_ID, txn_set |-> {}]
  ELSE LET victim == FindCycle(g, MinOf(ts), {}) IN
       IF victim = INVALID_TXN_ID THEN HasCycle(g, ts \ {MinOf(ts)})
       ELSE [found |-> TRUE, txn_id |-> victim, txn_set |-> ts \ {victim}]

\* LockManager::UpgradeGraph: the edges touching the victim leave the graph
\* (RemoveEdge drops a transaction without edges from txn_set).
UpgradeGraph(g, ts, victim) ==
  LET g2 == [t \in DOMAIN g |-> IF t = victim THEN {} ELSE g[t] \ {victim}] IN
  [waits_for |-> g2, txn_set |-> {t \in ts : g2[t] # {}}]

\* ---- state of the lock manager, its transactions and its threads
NoCall == [op |-> "none", mode |-> "none", oid |-> 0, rid |-> 0, was |-> "none"]
NoRet ==
  [txn |-> 0, op |-> "none", mode |-> "none", res |-> <<"none", 0>>,
   was |-> "none", ret |-> "none", reason |-> "none"]

InitLockWith(levels) ==
  /\ iso_level \in [Txns -> levels]
  /\ txn_state = [t \in Txns |-> "GROWING"]
  /\ table_lock_set = [t \in Txns |-> {}]
  /\ row_lock_set = [t \in Txns |-> {}]
  /\ table_lock_map = EmptyFn
  /\ row_lock_map = EmptyFn
  /\ tpc = [t \in Txns |-> "idle"]
  /\ tcall = [t \in Txns |-> NoCall]
  /\ lret = NoRet
  /\ ncalls = [t \in Txns |-> 0]
  /\ dpc = "sleep"
  /\ waits_for = [t \in Txns |-> {}]
  /\ txn_set = {}
  /\ dvictim = INVALID_TXN_ID
  /\ dpending = {}
  /\ lm_failed = FALSE

InitLock == InitLockWith(IsolationLevels)

\* The value of the lock manager's variables in the other specifications.
IdleLock == InitLockWith({"REPEATABLE_READ"})

\* The queue a blocked call of t waits on.
CallRes(t) ==
  IF tcall[t].op = "LockTable" THEN TableRes(tcall[t].oid) ELSE RowRes(tcall[t].rid)

\* The queue latch is held across steps only by a thread in prewait.
LatchFree(res) == \A t \in Txns : ~(tpc[t] = "prewait" /\ CallRes(t) = res)

\* cv_.notify_all() of the queue res: threads inside cv_.wait wake up.
NotifyAll(pc, res) ==
  [t \in Txns |-> IF pc[t] = "waiting" /\ CallRes(t) = res THEN "woken" ELSE pc[t]]

\* The queues that exist.
AllQueues ==
  {TableRes(oid) : oid \in DOMAIN table_lock_map} \cup {RowRes(rid) : rid \in DOMAIN row_lock_map}

QueueAt(res) == IF res[1] = "table" THEN table_lock_map[res[2]] ELSE row_lock_map[res[2]]

\* LockStep with the new request put in the queue before the checks: a
\* failed check leaves it there.
LockStepQueuesBeforeChecks(why, map, key, t, mode, state) ==
  IF why # "OK"
  THEN [ret |-> "abort", reason |-> why, old |-> "none", latch |-> FALSE,
        map |-> IF key \in DOMAIN map
                THEN [map EXCEPT ![key].request_queue = Append(@, NewLockRequest(t, mode))]
                ELSE map]
  ELSE IF key \notin DOMAIN map
  THEN [ret |-> "true", reason |-> "none", old |-> "none", latch |-> FALSE,
        map |-> FnPut(map, key,
                  [NewLockRequestQueue EXCEPT !.request_queue =
                     <<[txn_id |-> t, lock_mode |-> mode, granted |-> TRUE]>>])]
  ELSE LET e == EnqueueRequest(map[key], t, mode) IN
       IF e.outcome = "assert"
       THEN [ret |-> "assert", reason |-> "none", map |-> map, old |-> "none", latch |-> TRUE]
       ELSE IF e.outcome = "same"
       THEN [ret |-> "false", reason |-> "none", map |-> map, old |-> "none", latch |-> TRUE]
       ELSE IF e.outcome \in {"UPGRADE_CONFLICT", "INCOMPATIBLE_UPGRADE"}
       THEN [ret |-> "abort", reason |-> e.outcome, map |-> map, old |-> "none", latch |-> TRUE]
       ELSE LET a == TryAcquire(e.q, t, state) IN
            [ret |-> a.ret, reason |-> "none", map |-> [map EXCEPT ![key] = a.q],
             old |-> e.old, latch |-> TRUE]

\* LockTable lines 259-352 and LockRow lines 430-521 on the map that holds
\* the queue: [ret, reason, map, old, latch].  ret is "abort", "true",
\* "false", "wait" or "assert"; latch tells that the queue latch was taken.
LockStep(why, map, key, t, mode, state) ==
  IF why # "OK"
  THEN [ret |-> "abort", reason |-> why, map |-> map, old |-> "none", latch |-> FALSE]
  ELSE IF key \notin DOMAIN map
  THEN [ret |-> "true", reason |-> "none", old |-> "none", latch |-> FALSE,
        map |-> FnPut(map, key,
                  [NewLockRequestQueue EXCEPT !.request_queue =
                     <<[txn_id |-> t, lock_mode |-> mode, granted |-> TRUE]>>])]
  ELSE LET e == EnqueueRequest(map[key], t, mode) IN
       IF e.outcome = "assert"
       THEN [ret |-> "assert", reason |-> "none", map |-> map, old |-> "none", latch |-> TRUE]
       ELSE IF e.outcome = "same"
       THEN [ret |-> "false", reason |-> "none", map |-> map, old |-> "none", latch |-> TRUE]
       ELSE IF e.outcome \in {"UPGRADE_CONFLICT", "INCOMPATIBLE_UPGRADE"}
       THEN [ret |-> "abort", reason |-> e.outcome, map |-> map, old |-> "none", latch |-> TRUE]
       ELSE LET a == TryAcquire(e.q, t, state) IN
            [ret |-> a.ret, reason |-> "none", map |-> [map EXCEPT ![key] = a.q],
             old |-> e.old, latch |-> TRUE]

\* Lines 333-352 / 502-521 after cv_.wait returns: [ret, map, notify].
WakeStep(map, key, t, state) ==
  IF state = "ABORTED"
  THEN [ret |-> "false", notify |-> TRUE,
        map |-> [map EXCEPT ![key].request_queue = EraseRequest(@, t)]]
  ELSE LET a == TryAcquire(map[key], t, state) IN
       [ret |-> a.ret, notify |-> FALSE, map |-> [map EXCEPT ![key] = a.q]]

LockRunning == ~lm_failed

CanCall(t) ==
  /\ LockRunning
  /\ tpc[t] = "idle"
  /\ txn_state[t] # "COMMITTED"

\* LockManager::LockTable up to its return or its first cv_.wait.
LockTable(t, mode, oid) ==
  /\ OnlyLock
  /\ CanCall(t)
  /\ LET r == LockStep(TableLockPolicy(txn_state[t], iso_level[t], mode),
                       table_lock_map, oid, t, mode, txn_state[t])
     IN /\ r.latch => LatchFree(TableRes(oid))
        /\ table_lock_map' = r.map
        /\ txn_state' = IF r.ret = "abort" THEN [txn_state EXCEPT ![t] = "ABORTED"]
                        ELSE txn_state
        /\ table_lock_set' =
             [table_lock_set EXCEPT ![t] =
                (IF r.old = "none" THEN @ ELSE @ \ {<<r.old, oid>>})
                  \cup (IF r.ret = "true" THEN {<<mode, oid>>} ELSE {})]
        /\ tpc' = [tpc EXCEPT ![t] = IF r.ret = "wait" THEN "prewait"
                                      ELSE IF r.ret = "abort" THEN "threw"
                                      ELSE "idle"]
        /\ tcall' = [tcall EXCEPT ![t] =
                       IF r.ret = "wait"
                       THEN [op |-> "LockTable", mode |-> mode, oid |-> oid, rid |-> 0,
                             was |-> txn_state[t]]
                       ELSE NoCall]
        /\ lret' = IF r.ret = "wait" THEN NoRet
                      ELSE [txn |-> t, res |-> TableRes(oid),
                            op |-> "LockTable", mode |-> mode, was |-> txn_state[t],
                            ret |-> r.ret, reason |-> r.reason]
        /\ lm_failed' = (r.ret = "assert")
  /\ ncalls' = [ncalls EXCEPT ![t] = @ + 1]
  /\ UNCHANGED <<iso_level, row_lock_set, row_lock_map, dpc, waits_for, txn_set,
                 dvictim, dpending>>

\* LockManager::LockRow up to its return or its first cv_.wait.
LockRow(t, mode, oid, rid) ==
  /\ OnlyLock
  /\ CanCall(t)
  /\ LET r == LockStep(RowLockPolicy(txn_state[t], iso_level[t], mode,
                                     table_lock_set[t], oid),
                       row_lock_map, rid, t, mode, txn_state[t])
     IN /\ r.latch => LatchFree(RowRes(rid))
        /\ row_lock_map' = r.map
        /\ txn_state' = IF r.ret = "abort" THEN [txn_state EXCEPT ![t] = "ABORTED"]
                        ELSE txn_state
        /\ row_lock_set' =
             [row_lock_set EXCEPT ![t] =
                (IF r.old = "none" THEN @ ELSE @ \ {<<r.old, oid, rid>>})
                  \cup (IF r.ret = "true" THEN {<<mode, oid, rid>>} ELSE {})]
        /\ tpc' = [tpc EXCEPT ![t] = IF r.ret = "wait" THEN "prewait"
                                      ELSE IF r.ret = "abort" THEN "threw"
                                      ELSE "idle"]
        /\ tcall' = [tcall EXCEPT ![t] =
                       IF r.ret = "wait"
                       THEN [op |-> "LockRow", mode |-> mode, oid |-> oid, rid |-> rid,
                             was |-> txn_state[t]]
                       ELSE NoCall]
        /\ lret' = IF r.ret = "wait" THEN NoRet
                      ELSE [txn |-> t, res |-> RowRes(rid),
                            op |-> "LockRow", mode |-> mode, was |-> txn_state[t],
                            ret |-> r.ret, reason |-> r.reason]
        /\ lm_failed' = (r.ret = "assert")
  /\ ncalls' = [ncalls EXCEPT ![t] = @ + 1]
  /\ UNCHANGED <<iso_level, table_lock_set, table_lock_map, dpc, waits_for, txn_set,
                 dvictim, dpending>>

\* lock_queue->cv_.wait(queue_lock): the latch is released, the thread sleeps.
WaitOnQueue(t) ==
  /\ OnlyLock
  /\ LockRunning
  /\ lret' = NoRet
  /\ tpc[t] = "prewait"
  /\ tpc' = [tpc EXCEPT ![t] = "waiting"]
  /\ UNCHANGED <<iso_level, txn_state, table_lock_set, row_lock_set, table_lock_map,
                 row_lock_map, tcall, ncalls, dpc, waits_for, txn_set, dvictim,
                 dpending, lm_failed>>

\* LockTable from the return of cv_.wait to its return or its next cv_.wait.
WakeTable(t) ==
  /\ OnlyLock
  /\ LockRunning
  /\ tpc[t] = "woken"
  /\ tcall[t].op = "LockTable"
  /\ LatchFree(CallRes(t))
  /\ LET oid == tcall[t].oid
         r == WakeStep(table_lock_map, oid, t, txn_state[t])
         pc == [tpc EXCEPT ![t] = IF r.ret = "wait" THEN "prewait" ELSE "idle"]
     IN /\ table_lock_map' = r.map
        /\ table_lock_set' =
             [table_lock_set EXCEPT ![t] =
                @ \cup (IF r.ret = "true" THEN {<<tcall[t].mode, oid>>} ELSE {})]
        /\ tpc' = IF r.notify THEN NotifyAll(pc, TableRes(oid)) ELSE pc
        /\ tcall' = [tcall EXCEPT ![t] = IF r.ret = "wait" THEN @ ELSE NoCall]
        /\ lret' = IF r.ret = "wait" THEN NoRet
                      ELSE [txn |-> t, res |-> TableRes(oid),
                            op |-> "LockTable", mode |-> tcall[t].mode,
                            was |-> tcall[t].was, ret |-> r.ret, reason |-> "none"]
  /\ UNCHANGED <<iso_level, txn_state, row_lock_set, row_lock_map, ncalls, dpc,
                 waits_for, txn_set, dvictim, dpending, lm_failed>>

\* LockRow from the return of cv_.wait to its return or its next cv_.wait.
WakeRow(t) ==
  /\ OnlyLock
  /\ LockRunning
  /\ tpc[t] = "woken"
  /\ tcall[t].op = "LockRow"
  /\ LatchFree(CallRes(t))
  /\ LET rid == tcall[t].rid
         r == WakeStep(row_lock_map, rid, t, txn_state[t])
         pc == [tpc EXCEPT ![t] = IF r.ret = "wait" THEN "prewait" ELSE "idle"]
     IN /\ row_lock_map' = r.map
        /\ row_lock_set' =
             [row_lock_set EXCEPT ![t] =
                @ \cup (IF r.ret = "true"
                        THEN {<<tcall[t].mode, tcall[t].oid, rid>>} ELSE {})]
        /\ tpc' = IF r.notify THEN NotifyAll(pc, RowRes(rid)) ELSE pc
        /\ tcall' = [tcall EXCEPT ![t] = IF r.ret = "wait" THEN @ ELSE NoCall]
        /\ lret' = IF r.ret = "wait" THEN NoRet
                      ELSE [txn |-> t, res |-> RowRes(rid),
                            op |-> "LockRow", mode |-> tcall[t].mode,
                            was |-> tcall[t].was, ret |-> r.ret, reason |-> "none"]
  /\ UNCHANGED <<iso_level, txn_state, table_lock_set, table_lock_map, ncalls, dpc,
                 waits_for, txn_set, dvictim, dpending, lm_failed>>

\* ErasedMode reading the lock mode of the request at the front of the
\* queue instead of the transaction's own request.
ErasedModeOfFront(q, t) ==
  IF ReqIndex(q.request_queue, t) = 0 THEN "none"
  ELSE q.request_queue[1].lock_mode

\* Lines 375-384 / 539-550: erase the first request of t and notify; the
\* mode of the erased request, "none" if t has no request in the queue.
ErasedMode(q, t) ==
  IF ReqIndex(q.request_queue, t) = 0 THEN "none"
  ELSE q.request_queue[ReqIndex(q.request_queue, t)].lock_mode

\* LockManager::UnlockTable
UnlockTable(t, oid) ==
  /\ OnlyLock
  /\ CanCall(t)
  /\ LET why == IF ~IsTableLockExist(table_lock_set[t], oid)
                THEN "ATTEMPTED_UNLOCK_BUT_NO_LOCK_HELD"
                ELSE IF ~CanTableUnlock(row_lock_set[t], oid)
                THEN "TABLE_UNLOCKED_BEFORE_UNLOCKING_ROWS"
                ELSE "OK"
     IN IF why # "OK"
        THEN /\ txn_state' = [txn_state EXCEPT ![t] = "ABORTED"]
             /\ lret' = [txn |-> t, res |-> TableRes(oid),
                         op |-> "UnlockTable", mode |-> "none",
                           was |-> txn_state[t],
                            ret |-> "abort", reason |-> why]
             /\ tpc' = [tpc EXCEPT ![t] = "threw"]
             /\ UNCHANGED <<table_lock_map, table_lock_set>>
        ELSE LET q == table_lock_map[oid]
                 m == ErasedMode(q, t)
             IN /\ LatchFree(TableRes(oid))
                /\ txn_state' = [txn_state EXCEPT ![t] =
                                   IF m = "none" THEN @
                                   ELSE ChangTxnState(@, iso_level[t], m)]
                /\ table_lock_set' = [table_lock_set EXCEPT ![t] = @ \ {<<m, oid>>}]
                /\ table_lock_map' =
                     [table_lock_map EXCEPT ![oid].request_queue = EraseRequest(@, t)]
                /\ tpc' = NotifyAll(tpc, TableRes(oid))
                /\ lret' = [txn |-> t, res |-> TableRes(oid), op |-> "UnlockTable", mode |-> m,
                              was |-> txn_state[t],
                               ret |-> "true", reason |-> "none"]
  /\ UNCHANGED <<iso_level, row_lock_set, row_lock_map, tcall, ncalls, dpc, waits_for,
                 txn_set, dvictim, dpending, lm_failed>>

\* LockManager::UnlockRow
UnlockRow(t, oid, rid, force) ==
  /\ OnlyLock
  /\ CanCall(t)
  /\ IF ~IsRowLockExist(row_lock_set[t], oid, rid)
     THEN /\ txn_state' = [txn_state EXCEPT ![t] = "ABORTED"]
          /\ lret' = [txn |-> t, res |-> RowRes(rid), op |-> "UnlockRow", mode |-> "none",
                        was |-> txn_state[t],
                         ret |-> "abort",
                         reason |-> "ATTEMPTED_UNLOCK_BUT_NO_LOCK_HELD"]
          /\ tpc' = [tpc EXCEPT ![t] = "threw"]
          /\ UNCHANGED <<row_lock_map, row_lock_set>>
     ELSE LET q == row_lock_map[rid]
              m == ErasedMode(q, t)
          IN /\ LatchFree(RowRes(rid))
             /\ txn_state' = [txn_state EXCEPT ![t] =
                                IF m = "none" \/ force THEN @
                                ELSE ChangTxnState(@, iso_level[t], m)]
             /\ row_lock_set' = [row_lock_set EXCEPT ![t] = @ \ {<<m, oid, rid>>}]
             /\ row_lock_map' =
                  [row_lock_map EXCEPT ![rid].request_queue = EraseRequest(@, t)]
             /\ tpc' = NotifyAll(tpc, RowRes(rid))
             /\ lret' = [txn |-> t, res |-> RowRes(rid), op |-> "UnlockRow", mode |-> m,
                           was |-> txn_state[t],
                            ret |-> "true", reason |-> "none"]
  /\ UNCHANGED <<iso_level, table_lock_set, table_lock_map, tcall, ncalls, dpc,
                 waits_for, txn_set, dvictim, dpending, lm_failed>>

\* The queues in which t holds a lock recorded in its lock sets.
HeldQueues(t) ==
  {TableRes(e[2]) : e \in table_lock_set[t]} \cup {RowRes(e[3]) : e \in row_lock_set[t]}

\* TransactionManager::Abort / Commit: every lock of the lock sets is
\* released (UnlockRow with force, then UnlockTable) and the state is set.
ReleaseLocks(t, final) ==
  /\ OnlyLock
  /\ LockRunning
  /\ lret' = NoRet
  /\ tpc[t] \in {"idle", "threw"}
  /\ \A res \in HeldQueues(t) : LatchFree(res)
  /\ row_lock_map' =
       [rid \in DOMAIN row_lock_map |->
          IF RowRes(rid) \in HeldQueues(t)
          THEN [row_lock_map[rid] EXCEPT !.request_queue = EraseRequest(@, t)]
          ELSE row_lock_map[rid]]
  /\ table_lock_map' =
       [oid \in DOMAIN table_lock_map |->
          IF TableRes(oid) \in HeldQueues(t)
          THEN [table_lock_map[oid] EXCEPT !.request_queue = EraseRequest(@, t)]
          ELSE table_lock_map[oid]]
  /\ row_lock_set' = [row_lock_set EXCEPT ![t] = {}]
  /\ table_lock_set' = [table_lock_set EXCEPT ![t] = {}]
  /\ txn_state' = [txn_state EXCEPT ![t] = final]
  /\ tpc' = [u \in Txns |->
               IF u = t THEN "done"
               ELSE IF tpc[u] = "waiting" /\ CallRes(u) \in HeldQueues(t) THEN "woken"
               ELSE tpc[u]]
  /\ UNCHANGED <<iso_level, tcall, ncalls, dpc, waits_for, txn_set, dvictim,
                 dpending, lm_failed>>

TxnAbort(t) ==
  /\ txn_state[t] # "COMMITTED"
  /\ ReleaseLocks(t, "ABORTED")

TxnCommit(t) ==
  /\ txn_state[t] \in {"GROWING", "SHRINKING"}
  /\ ReleaseLocks(t, "COMMITTED")

\* ---- the deadlock detector (RunCycleDetection)
\* Lines 663-665 and 692 for the graph g: the victim HasCycle reports is set
\* ABORTED and the notify loops start, or the pass ends and the detector
\* sleeps.
DetAbortVictim(g, ts) ==
  \E r \in {HasCycle(g, ts)} :
  IF r.found
  THEN /\ waits_for' = g
       /\ txn_set' = r.txn_set
       /\ txn_state' = [txn_state EXCEPT ![r.txn_id] = "ABORTED"]
       /\ dvictim' = r.txn_id
       /\ dpending' = AllQueues
       /\ dpc' = "notify"
  ELSE /\ waits_for' = [t \in Txns |-> {}]
       /\ txn_set' = {}
       /\ dvictim' = INVALID_TXN_ID
       /\ dpc' = "sleep"
       /\ UNCHANGED <<txn_state, dpending>>

\* Lines 622-665: the wait-for graph is built from a copy of every queue and
\* HasCycle is called for the first time in this pass.
DetBuild ==
  /\ OnlyLock
  /\ LockRunning
  /\ lret' = NoRet
  /\ dpc = "sleep"
  /\ UNCHANGED <<iso_level, table_lock_set, row_lock_set, table_lock_map, row_lock_map,
                 tpc, tcall, ncalls, lm_failed>>
  /\ \E edges \in {UNION {QueueEdges(QueueAt(res).request_queue) : res \in AllQueues}} :
       DetAbortVictim(GraphOf(edges), SourcesOf(edges))

\* Line 663 after UpgradeGraph: HasCycle on what is left of the graph.
DetHasCycle ==
  /\ OnlyLock
  /\ LockRunning
  /\ lret' = NoRet
  /\ dpc = "detect"
  /\ UNCHANGED <<iso_level, table_lock_set, row_lock_set, table_lock_map, row_lock_map,
                 tpc, tcall, ncalls, lm_failed>>
  /\ DetAbortVictim(waits_for, txn_set)

\* The next queues of the loops of lines 668-676 (row_lock_map_) and 680-688
\* (table_lock_map_); the order within an unordered_map is arbitrary.
DetNextQueues ==
  IF \E res \in dpending : res[1] = "row"
  THEN {res \in dpending : res[1] = "row"}
  ELSE dpending

\* One iteration of these loops: the queue is scanned without its latch and
\* notified if it holds a request of the victim.
DetNotify(res) ==
  /\ OnlyLock
  /\ LockRunning
  /\ lret' = NoRet
  /\ dpc = "notify"
  /\ res \in DetNextQueues
  /\ dpending' = dpending \ {res}
  /\ tpc' = IF \E i \in DOMAIN QueueAt(res).request_queue :
                 QueueAt(res).request_queue[i].txn_id = dvictim
            THEN NotifyAll(tpc, res)
            ELSE tpc
  /\ UNCHANGED <<iso_level, txn_state, table_lock_set, row_lock_set, table_lock_map,
                 row_lock_map, tcall, ncalls, dpc, waits_for, txn_set, dvictim,
                 lm_failed>>

\* Line 690: UpgradeGraph(txn_id), back to the HasCycle loop.
DetUpgradeGraph ==
  /\ OnlyLock
  /\ LockRunning
  /\ lret' = NoRet
  /\ dpc = "notify"
  /\ dpending = {}
  /\ LET g == UpgradeGraph(waits_for, txn_set, dvictim) IN
     /\ waits_for' = g.waits_for
     /\ txn_set' = g.txn_set
  /\ dpc' = "detect"
  /\ UNCHANGED <<iso_level, txn_state, table_lock_set, row_lock_set, table_lock_map,
                 row_lock_map, tpc, tcall, ncalls, dvictim, dpending, lm_failed>>

\* The queues the detector reads next without holding their latch: all of
\* them when it builds the graph, the remaining ones in the notify loops.
DetReads == IF dpc = "sleep" THEN AllQueues ELSE IF dpc = "notify" THEN dpending ELSE {}

\* Thread t can write the request list of queue res now (under its latch).
Mutates(t, res, cap) ==
  \/ tpc[t] = "woken" /\ CallRes(t) = res /\ LatchFree(res)
  \/ tpc[t] \in {"idle", "threw"} /\ res \in HeldQueues(t)
  \/ CanCall(t) /\ ncalls[t] < cap /\ LatchFree(res)

\* The detector's unlatched read of a queue overlaps a write of its request
\* list by a lock or unlock call: a data race on the std::list.  The
\* outcomes are the interleavings above and this one, the process failing.
DetectorRace(t, res, cap) ==
  /\ OnlyLock
  /\ LockRunning
  /\ lret' = NoRet
  /\ res \in DetReads
  /\ Mutates(t, res, cap)
  /\ lm_failed' = TRUE
  /\ UNCHANGED <<iso_level, txn_state, table_lock_set, row_lock_set, table_lock_map,
                 row_lock_map, tpc, tcall, ncalls, dpc, waits_for, txn_set,
                 dvictim, dpending>>

\* The steps of the transactions' threads whose LockTable calls use the modes
\* tmodes and whose LockRow calls the modes rmodes, at most cap calls each.
NextThreads(tmodes, rmodes, cap) ==
  \/ \E t \in Txns, mode \in tmodes, oid \in Tables :
       ncalls[t] < cap /\ LockTable(t, mode, oid)
  \/ \E t \in Txns, mode \in rmodes, rid \in Rows :
       ncalls[t] < cap /\ LockRow(t, mode, RowTable(rid), rid)
  \/ \E t \in Txns : WaitOnQueue(t)
  \/ \E t \in Txns : WakeTable(t)
  \/ \E t \in Txns : WakeRow(t)
  \/ \E t \in Txns, oid \in Tables : UnlockTable(t, oid)
  \/ \E t \in Txns, rid \in Rows, force \in BOOLEAN : UnlockRow(t, RowTable(rid), rid, force)
  \/ \E t \in Txns : TxnAbort(t)
  \/ \E t \in Txns : TxnCommit(t)

\* The steps of the detector after it found a cycle.
NextVictim ==
  \/ DetHasCycle
  \/ \E res \in AllQueues : DetNotify(res)
  \/ DetUpgradeGraph

\* Callers use every lock mode.  With MaxLockCalls calls per transaction no
\* wait-for cycle can form, so every pass of the detector ends in DetBuild.
NextLock ==
  \/ NextThreads(LockModes, LockModes, MaxLockCalls)
  \/ DetBuild
  \/ \E t \in Txns, res \in AllQueues : DetectorRace(t, res, MaxLockCalls)

\* Callers take IX or X on tables and X on rows: the deadlock scenario.
NextDeadlock ==
  \/ NextThreads({"IX", "X"}, {"X"}, MaxDeadlockCalls)
  \/ DetBuild
  \/ NextVictim
  \/ \E t \in Txns, res \in AllQueues : DetectorRace(t, res, MaxDeadlockCalls)

\* ---- properties of the lock manager
GrantedPairs(res) ==
  LET rq == QueueAt(res).request_queue IN
  {p \in (DOMAIN rq) \X (DOMAIN rq) :
     /\ rq[p[1]].granted /\ rq[p[2]].granted
     /\ rq[p[1]].txn_id # rq[p[2]].txn_id}

C5_ShrinkingNeverAcquires ==
  (lret.op \in {"LockTable", "LockRow"} /\ lret.was = "SHRINKING") =>
    LET iso == iso_level[lret.txn] IN
    /\ lret.ret = "true" => (iso = "READ_COMMITTED" /\ lret.mode \in {"S", "IS"})
    /\ iso = "REPEATABLE_READ" =>
         (lret.ret = "abort" /\ lret.reason = "LOCK_ON_SHRINKING")
    /\ (iso = "READ_COMMITTED" /\ lret.mode \in {"X", "IX", "SIX"}) =>
         (lret.ret = "abort" /\ lret.reason = "LOCK_ON_SHRINKING")
    /\ iso = "READ_UNCOMMITTED" => lret.ret = "abort"

\* The thread of t is blocked in a lock call.
Blocked(t) == tpc[t] \in {"prewait", "waiting", "woken"}

\* t is blocked by a granted request of u that is incompatible with its own.
WaitsFor(t, u) ==
  /\ t # u
  /\ Blocked(t)
  /\ \E i \in DOMAIN QueueAt(CallRes(t)).request_queue :
       LET r == QueueAt(CallRes(t)).request_queue[i] IN
       r.txn_id = u /\ r.granted /\ ~Compatible(r.lock_mode, tcall[t].mode)

RECURSIVE ReachFrom(_, _)
ReachFrom(S, k) ==
  IF k = 0 THEN S
  ELSE ReachFrom(S \cup {u \in Txns : \E v \in S : WaitsFor(v, u)}, k - 1)

\* t is on a cycle of the wait-for relation.
OnCycle(t) == t \in ReachFrom({u \in Txns : WaitsFor(t, u)}, NumTxns)

GrantableNow(t) ==
  /\ Blocked(t)
  /\ txn_state[t] # "ABORTED"
  /\ \E i \in {ReqIndex(QueueAt(CallRes(t)).request_queue, t)} :
       /\ i # 0
       /\ ~QueueAt(CallRes(t)).request_queue[i].granted
       /\ Grantable(QueueAt(CallRes(t)), i)

\* The blocked LockTable or LockRow call of t has just returned true.
ReturnedGranted(t) ==
  /\ lret.txn = t
  /\ lret.op \in {"LockTable", "LockRow"}
  /\ lret.ret = "true"
  /\ ~Blocked(t)

AbortedFailure ==
  /\ lret.op \in {"LockTable", "LockRow"}
  /\ lret.ret = "false"
  /\ txn_state[lret.txn] = "ABORTED"
  /\ lret.res \notin HeldQueues(lret.txn)

\* C13: when LockTable or LockRow returns false because the transaction is
\* ABORTED, the queue of the call holds no request of that transaction,
\* granted or ungranted, and no other thread is left sleeping in cv_.wait on
\* that queue.
C13_AbortedCallLeavesNoRequest ==
  AbortedFailure =>
    /\ ReqIndex(QueueAt(lret.res).request_queue, lret.txn) = 0
    /\ \A u \in Txns : ~(tpc[u] = "waiting" /\ CallRes(u) = lret.res)

\* ---- the cycle search on its own, over the wait-for graphs of more
\* transactions than the lock calls above use.  Every graph without an edge
\* from a transaction to itself can be built by AddEdge: a waiting
\* transaction has an edge to every holder of the lock it waits for, and
\* the holders of different rows are independent.
NumGraphTxns == 4

GraphTxns == 1..NumGraphTxns

InitCycle ==
  /\ iso_level = [t \in Txns |-> "REPEATABLE_READ"]
  /\ txn_state = [t \in Txns |-> "GROWING"]
  /\ table_lock_set = [t \in Txns |-> {}]
  /\ row_lock_set = [t \in Txns |-> {}]
  /\ table_lock_map = EmptyFn
  /\ row_lock_map = EmptyFn
  /\ tpc = [t \in Txns |-> "idle"]
  /\ tcall = [t \in Txns |-> NoCall]
  /\ lret = NoRet
  /\ ncalls = [t \in Txns |-> 0]
  /\ dpc = "detect"
  /\ waits_for \in [GraphTxns -> SUBSET GraphTxns]
  /\ \A t \in GraphTxns : t \notin waits_for[t]
  /\ txn_set = {t \in GraphTxns : waits_for[t] # {}}
  /\ dvictim = INVALID_TXN_ID
  /\ dpending = {}
  /\ lm_failed = FALSE

\* RunCycleDetection, lines 663-665: HasCycle names a victim, which is set
\* ABORTED (dvictim), or the pass ends.
CycleHasCycle ==
  /\ OnlyLock
  /\ dpc = "detect"
  /\ \E r \in {HasCycle(waits_for, txn_set)} :
       /\ txn_set' = r.txn_set
       /\ dvictim' = r.txn_id
       /\ dpc' = IF r.found THEN "notify" ELSE "sleep"
  /\ UNCHANGED <<iso_level, txn_state, table_lock_set, row_lock_set, table_lock_map,
                 row_lock_map, tpc, tcall, lret, ncalls, waits_for, dpending,
                 lm_failed>>

\* RunCycleDetection, line 690: UpgradeGraph(txn_id), back to HasCycle.
CycleUpgradeGraph ==
  /\ OnlyLock
  /\ dpc = "notify"
  /\ LET g == UpgradeGraph(waits_for, txn_set, dvictim) IN
     /\ waits_for' = g.waits_for
     /\ txn_set' = g.txn_set
  /\ dpc' = "detect"
  /\ UNCHANGED <<iso_level, txn_state, table_lock_set, row_lock_set, table_lock_map,
                 row_lock_map, tpc, tcall, lret, ncalls, dvictim, dpending,
                 lm_failed>>

NextCycle == CycleHasCycle \/ CycleUpgradeGraph

\* The transactions reached from S in at most k steps of g that stay within
\* the set among.
RECURSIVE GraphReach(_, _, _, _)
GraphReach(g, among, S, k) ==
  IF k = 0 THEN S
  ELSE GraphReach(g, among,
                  S \cup {u \in among : \E v \in S : u \in g[v]}, k - 1)

\* t is on a cycle of g whose transactions are all in among.
OnCycleWithin(g, among, t) ==
  t \in GraphReach(g, among, g[t] \cap among, Cardinality(DOMAIN g))

\* C11: the transaction the detector marks ABORTED is on a cycle of the
\* wait-for graph of that moment and has the highest id of that cycle; a
\* transaction that only waits for a member of a cycle is never the victim.
C11_VictimYoungestOnCycle ==
  dpc = "notify" =>
    OnCycleWithin(waits_for, {u \in DOMAIN waits_for : u <= dvictim}, dvictim)

(***************************************************************************)
(* B+TREE PAGES (storage/page/b_plus_tree_leaf_page.cpp,                   *)
(* storage/page/b_plus_tree_internal_page.cpp)                             *)
(*                                                                         *)
(* A page is a record                                                      *)
(*   page_type      "HEADER", "LEAF" or "INTERNAL"                         *)
(*   max_size                                                              *)
(*   next_page_id   of a leaf                                              *)
(*   root_page_id   of the header page                                     *)
(*   array          the first GetSize() entries of array_: <<key, value>>  *)
(*                  in a leaf, <<key, child page id>> in an internal page  *)
(* Slot i of array_ is array[i + 1].                                       *)
(***************************************************************************)
HEADER_PAGE_ID == 0

Last(s) == s[Len(s)]

Front(s) == SubSeq(s, 1, Len(s) - 1)

GetSize(pg) == Len(pg.array)

\* BPlusTreePage::GetMinSize: half of max_size, rounded up.
GetMinSize(pg) == (pg.max_size + 1) \div 2

KeyAt(pg, index) == pg.array[index + 1][1]

ValueAt(pg, index) == pg.array[index + 1][2]

SetKeyAt(pg, index, key) == [pg EXCEPT !.array[index + 1][1] = key]

\* The binary search of Insert and GetKeyIndex: the first slot in [l, r)
\* whose key is greater than key, r if none.
RECURSIVE UpperBound(_, _, _, _)
UpperBound(pg, key, l, r) ==
  IF l < r
  THEN LET mid == (l + r) \div 2 IN
       IF KeyAt(pg, mid) > key
       THEN UpperBound(pg, key, l, mid)
       ELSE UpperBound(pg, key, mid + 1, r)
  ELSE l

\* The binary search of ValueAtKey, KetIndex and RemoveRecord over [l, r].
RECURSIVE KetIndex(_, _, _, _)
KetIndex(pg, key, l, r) ==
  IF l < r
  THEN LET mid == (l + r) \div 2 IN
       IF KeyAt(pg, mid) >= key
       THEN KetIndex(pg, key, l, mid)
       ELSE KetIndex(pg, key, mid + 1, r)
  ELSE l

\* BPlusTreeLeafPage::Init
LeafInit(max_size) ==
  [page_type |-> "LEAF", max_size |-> max_size, next_page_id |-> INVALID_PAGE_ID,
   root_page_id |-> INVALID_PAGE_ID, array |-> <<>>]

\* BPlusTreeLeafPage::SetKeyValueAt on a page that Init left empty: the
\* page holds the pair in slot index.
SetKeyValueAt(pg, index, key, value) ==
  [pg EXCEPT !.array = SubSeq(@, 1, index) \o <<<<key, value>>>>]

\* BPlusTreeLeafPage::ValueAtKey: [found, value].
ValueAtKey(pg, key) ==
  IF GetSize(pg) = 0 THEN [found |-> FALSE, value |-> 0]
  ELSE LET index == KetIndex(pg, key, 0, GetSize(pg) - 1) IN
       IF index = pg.max_size \/ KeyAt(pg, index) # key
       THEN [found |-> FALSE, value |-> 0]
       ELSE [found |-> TRUE, value |-> ValueAt(pg, index)]

\* BPlusTreeLeafPage::Insert: [ok, page].  With index = 0 the duplicate test
\* of line 150 reads array_[-1], which is outside the array: before_first
\* tells whether that read compares equal to key.
LeafInsert(pg, key, value, before_first) ==
  LET index == UpperBound(pg, key, 0, GetSize(pg))
      duplicate == IF index = 0 THEN before_first ELSE KeyAt(pg, index - 1) = key
  IN IF duplicate
     THEN [ok |-> FALSE, page |-> pg]
     ELSE [ok |-> TRUE,
           page |-> [pg EXCEPT !.array = InsertAt(@, index + 1, <<key, value>>)]]

\* The upper half with the order of its entries reversed.
LeafSplitReversed(pg, new_leaf_page) ==
  LET min_size == GetMinSize(pg)
      upper == SubSeq(pg.array, min_size + 1, pg.max_size)
      back == [i \in 1..Len(upper) |-> upper[Len(upper) + 1 - i]]
  IN [old |-> [pg EXCEPT !.array = SubSeq(@, 1, min_size)],
      new |-> [new_leaf_page EXCEPT !.array = back],
      risen_key |-> back[1][1]]

\* BPlusTreeLeafPage::Split: [old, new, risen_key]; the page keeps min_size
\* entries, the new page gets the other max_size - min_size.
LeafSplit(pg, new_leaf_page) ==
  LET min_size == GetMinSize(pg)
      upper == SubSeq(pg.array, min_size + 1, pg.max_size)
  IN [old |-> [pg EXCEPT !.array = SubSeq(@, 1, min_size)],
      new |-> [new_leaf_page EXCEPT !.array = upper],
      risen_key |-> upper[1][1]]

\* BPlusTreeLeafPage::RemoveRecord: [ok, page].
RemoveRecord(pg, key) ==
  IF GetSize(pg) = 0 THEN [ok |-> FALSE, page |-> pg]
  ELSE LET index == KetIndex(pg, key, 0, GetSize(pg) - 1) IN
       IF KeyAt(pg, index) # key
       THEN [ok |-> FALSE, page |-> pg]
       ELSE [ok |-> TRUE, page |-> [pg EXCEPT !.array = RemoveAt(@, index + 1)]]

\* BPlusTreeLeafPage::MoveAll: [from, to].
LeafMoveAll(pg, recipient) ==
  [from |-> [pg EXCEPT !.array = <<>>],
   to |-> [recipient EXCEPT !.array = @ \o pg.array,
                            !.next_page_id = pg.next_page_id]]

\* BPlusTreeLeafPage::MoveFrontTo: [from, to, key].
LeafMoveFrontTo(pg, page) ==
  [from |-> [pg EXCEPT !.array = Tail(@)],
   to |-> [page EXCEPT !.array = Append(@, pg.array[1])],
   key |-> pg.array[2][1]]

\* BPlusTreeLeafPage::MoveEndTo: [from, to, key].
LeafMoveEndTo(pg, page) ==
  [from |-> [pg EXCEPT !.array = Front(@)],
   to |-> [page EXCEPT !.array = <<Last(pg.array)>> \o @],
   key |-> Last(pg.array)[1]]

\* BPlusTreeInternalPage::Init
InternalInit(max_size) ==
  [page_type |-> "INTERNAL", max_size |-> max_size, next_page_id |-> INVALID_PAGE_ID,
   root_page_id |-> INVALID_PAGE_ID, array |-> <<>>]

\* BPlusTreeInternalPage::GetKeyIndex
GetKeyIndex(pg, key) == UpperBound(pg, key, 1, GetSize(pg)) - 1

\* BPlusTreeInternalPage::CreatNewRoot
CreatNewRoot(pg, key, left_id, right_id) ==
  [pg EXCEPT !.array = <<<<key, left_id>>, <<key, right_id>>>>]

\* BPlusTreeInternalPage::Insert
InternalInsert(pg, key, right_id) ==
  LET index == UpperBound(pg, key, 1, GetSize(pg)) IN
  [pg EXCEPT !.array = InsertAt(@, index + 1, <<key, right_id>>)]

\* BPlusTreeInternalPage::Split on the copy that holds max_size + 1 entries:
\* [old, new, risen_key].
InternalSplit(pg, new_page) ==
  LET min_size == GetMinSize(pg)
      upper == SubSeq(pg.array, min_size + 1, pg.max_size + 1)
  IN [old |-> [pg EXCEPT !.array = SubSeq(@, 1, min_size)],
      new |-> [new_page EXCEPT !.array = upper],
      risen_key |-> upper[1][1]]

\* BPlusTreeInternalPage::ValueIndex
ValueIndex(pg, value) ==
  LET hits == {i \in 0..(GetSize(pg) - 1) : ValueAt(pg, i) = value} IN
  IF hits = {} THEN -1 ELSE MinOf(hits)

\* BPlusTreeInternalPage::MoveAll: [from, to].
InternalMoveAll(pg, recipient, index, parent_page) ==
  [from |-> [pg EXCEPT !.array = <<>>],
   to |-> [recipient EXCEPT
             !.array = @ \o SetKeyAt(pg, 0, KeyAt(parent_page, index)).array]]

\* BPlusTreeInternalPage::Remove
InternalRemove(pg, index) == [pg EXCEPT !.array = RemoveAt(@, index + 1)]

\* BPlusTreeInternalPage::MoveFrontTo: [from, to, key].
InternalMoveFrontTo(pg, page, parent_key) ==
  [from |-> [pg EXCEPT !.array = Tail(@)],
   to |-> [page EXCEPT !.array = Append(@, <<parent_key, pg.array[1][2]>>)],
   key |-> pg.array[2][1]]

\* BPlusTreeInternalPage::MoveEndTo: [from, to, key].
InternalMoveEndTo(pg, page, parent_key) ==
  LET shifted == <<Last(pg.array)>> \o page.array IN
  [from |-> [pg EXCEPT !.array = Front(@)],
   to |-> [page EXCEPT !.array = [shifted EXCEPT ![2][1] = parent_key]],
   key |-> Last(pg.array)[1]]

(***************************************************************************)
(* B+TREE (storage/index/b_plus_tree.cpp)                                  *)
(*                                                                         *)
(* The index is a record                                                   *)
(*   b                  its buffer pool                                    *)
(*   pages              resident page id -> the page in its frame          *)
(*   disk               page id -> the page as last written to disk        *)
(*   leaf_max_size, internal_max_size                                      *)
(*   failed             a call threw, or the process has ended             *)
(*   ret                what the last call returned: [ok, value]           *)
(*   ctx                the Context of the call in progress, with          *)
(*     root_page_id, page_id, sibling_id                                   *)
(*     write_set        page ids of the guards in write_set_, front first  *)
(*     header_page      header_page_ holds a guard (is not std::nullopt)   *)
(*     guards           pages of all guards of the call with page_ set     *)
(* Every operator below takes the index and returns it after the step; a   *)
(* failed index passes through unchanged.                                  *)
(* Then(s, Rest) is the index after the statements Rest that follow a     *)
(* step which left the index as s.                                         *)
(***************************************************************************)
ZeroPage ==
  [page_type |-> "INVALID", max_size |-> 0, next_page_id |-> 0,
   root_page_id |-> 0, array |-> <<>>]

HeaderPage ==
  [page_type |-> "HEADER", max_size |-> 0, next_page_id |-> INVALID_PAGE_ID,
   root_page_id |-> INVALID_PAGE_ID, array |-> <<>>]

EmptyContext ==
  [root_page_id |-> INVALID_PAGE_ID, page_id |-> INVALID_PAGE_ID,
   sibling_id |-> INVALID_PAGE_ID, write_set |-> <<>>, header_page |-> FALSE,
   guards |-> {}, latched |-> {}]

\* Context::IsRootPage
IsRootPage(ctx, page_id) == page_id = ctx.root_page_id

TreeFail(s) == [s EXCEPT !.failed = TRUE]

\* The throws of lines 191, 275, 306 and 399: ctx->write_set_ is empty where
\* a parent or a leaf guard is needed.
ThrowWriteSetEmpty(s) == [s EXCEPT !.failed = TRUE, !.thrown = "write_set_ empty"]

RootPageId(s) == s.pages[HEADER_PAGE_ID].root_page_id

\* BufferPoolManager::FetchPageWrite and the AsMut / As that follows it.  A
\* page that is not resident gives a guard with page_ = nullptr, which the
\* caller dereferences.
FetchPageWrite(s, p) ==
  IF s.failed THEN s
  ELSE IF ~Resident(s.b, p) THEN TreeFail(s)
  ELSE [s EXCEPT !.b = FetchPage(@, p), !.ctx.guards = @ \cup {p}]

\* BufferPoolManager::FetchPageRead and the As that follows it.
FetchPageRead(s, p) ==
  IF s.failed THEN s
  ELSE IF ~Resident(s.b, p) THEN TreeFail(s)
  ELSE [s EXCEPT !.b = FetchPage(@, p), !.ctx.guards = @ \cup {p},
                 !.held = IF Cardinality(s.ctx.guards \cup {p}) > @
                          THEN Cardinality(s.ctx.guards \cup {p}) ELSE @]

\* WritePageGuard::Drop / ReadPageGuard::Drop, also run by the destructor:
\* nothing when the guard has been dropped or moved from.
DropGuard(s, p, is_dirty) ==
  IF s.failed \/ p \notin s.ctx.guards THEN s
  ELSE [s EXCEPT !.b = UnpinPage(@, p, is_dirty), !.ctx.guards = @ \ {p}]

\* The destructors of the guards the call holds.
RECURSIVE DropGuards(_, _, _)
DropGuards(s, ps, is_dirty) ==
  IF ps = {} THEN s
  ELSE DropGuards(DropGuard(s, CHOOSE p \in ps : TRUE, is_dirty),
                  ps \ {CHOOSE p \in ps : TRUE}, is_dirty)

\* throw Exception(ExceptionType::OUT_OF_MEMORY, ...): the call ends, and the
\* unwinding destroys ctx and the local guards, which unpin and unlatch
\* their pages.  A page the call got from NewPage is held through a Page*,
\* not through a guard: its pin and its WLatch stay.
ThrowOutOfMemory(s) ==
  [DropGuards(s, s.ctx.guards, TRUE) EXCEPT
     !.ctx = EmptyContext, !.failed = TRUE, !.thrown = "OUT_OF_MEMORY"]

\* bpm_->NewPage, the test of its result and new_page->WLatch():
\* OUT_OF_MEMORY when no frame can be had.  FetchPage leaves a resident
\* frame evictable, so the victim can be a page the call holds a guard on:
\* WLatch is then on the latch the call itself holds, and does not return.
\* The victim of an eviction goes to disk only when its frame is dirty.
\* The new page id is s.b.next_page_id.
TreeNewPage(s) ==
  IF s.failed THEN s
  ELSE IF NoFrameAvailable(s.b) THEN ThrowOutOfMemory(s)
  ELSE LET f == PickFrame(s.b)
           evicts == Len(s.b.free_list) = 0
           old == s.b.page_id[f]
       IN IF evicts /\ old \in s.ctx.guards \cup s.ctx.latched THEN TreeFail(s)
          ELSE [s EXCEPT !.b = NewPage(@),
                         !.disk = IF evicts /\ s.b.is_dirty[f]
                                  THEN FnPut(@, old, s.pages[old]) ELSE @,
                         !.pages = FnPut(IF evicts THEN FnErase(@, old) ELSE @,
                                         s.b.next_page_id, ZeroPage)]

\* bpm_->NewPage called by another thread that shares the buffer pool and
\* keeps its page pinned.  A frame this call holds a guard on can be the
\* victim (FetchPage leaves a resident frame evictable): the guard's Page*
\* is then the frame of the other thread's page, pin_count_ goes on from
\* the guard's pin, and PageId() gives the new id.
OtherNewPage(s) ==
  IF s.failed \/ NoFrameAvailable(s.b) THEN s
  ELSE LET f == PickFrame(s.b)
           evicts == Len(s.b.free_list) = 0
           old == s.b.page_id[f]
           new == s.b.next_page_id
           Renamed(p) == IF evicts /\ p = old THEN new ELSE p
       IN [s EXCEPT !.b = NewPage(@),
                    !.disk = IF evicts /\ s.b.is_dirty[f]
                             THEN FnPut(@, old, s.pages[old]) ELSE @,
                    !.pages = FnPut(IF evicts THEN FnErase(@, old) ELSE @,
                                    new, ZeroPage),
                    !.ctx.guards = {Renamed(p) : p \in @},
                    !.ctx.write_set = [i \in DOMAIN @ |-> Renamed(@[i])],
                    !.others.pages = @ \cup {new}]

\* The NewPage calls other threads make while this call is between its
\* leaf split and InsertIntoParent.
RECURSIVE OtherNewPages(_)
OtherNewPages(s) ==
  IF s.failed \/ s.others.pending = 0 THEN s
  ELSE OtherNewPages(OtherNewPage([s EXCEPT !.others.pending = @ - 1]))

\* bpm_->DeletePage and the test of its result.
TreeDeletePage(s, p) ==
  IF s.failed THEN s
  ELSE IF DeletePage(s.b, p).replacer.failed \/ ~DeletePageOk(s.b, p)
       THEN TreeFail([s EXCEPT !.b = DeletePage(@, p)])
       ELSE [s EXCEPT !.b = DeletePage(@, p), !.pages = FnErase(@, p)]

Then(s, Rest(_)) == IF s.failed THEN s ELSE Rest(s)

RECURSIVE DropAll(_, _)
DropAll(s, ps) ==
  IF ps = <<>> THEN s ELSE DropAll(DropGuard(s, Head(ps), TRUE), Tail(ps))

\* The loops that empty write_set_, dropping each guard.
DropWriteSet(s) ==
  IF s.failed THEN s
  ELSE [DropAll(s, s.ctx.write_set) EXCEPT !.ctx.write_set = <<>>]

\* write_set_.pop_back() after the guard at the back has been moved out.
PopBack(s) == [s EXCEPT !.ctx.write_set = Front(@)]


\* A return statement: the destructors drop the guards the call still
\* holds, ctx goes, and the caller has the result.
Return(s, is_dirty, ok, value) ==
  IF s.failed THEN s
  ELSE [DropGuards(s, s.ctx.guards, is_dirty) EXCEPT
          !.ctx = EmptyContext, !.ret = [ok |-> ok, value |-> value]]

\* ctx.header_page_->Drop(); ctx.header_page_ = std::nullopt at the end of
\* Insert and Remove.  On an empty optional operator-> is undefined: the
\* call goes on, or the library's check ends the process.
DropHeaderPage(s, nullopt_aborts) ==
  IF s.failed THEN s
  ELSE IF s.ctx.header_page
       THEN [DropGuard(s, HEADER_PAGE_ID, TRUE) EXCEPT !.ctx.header_page = FALSE]
       ELSE IF nullopt_aborts THEN TreeFail(s) ELSE s

\* IsSafe with a leaf taken as safe for an insert while it has room for the
\* key, although the insert that fills it splits it.
IsSafeLeafWithRoom(cur_page, is_insert) ==
  IF is_insert
  THEN GetSize(cur_page) < cur_page.max_size
  ELSE GetSize(cur_page) > GetMinSize(cur_page)

\* FindLeafPageWriteInsertOrDelete, lines 463-478: the ancestors of
\* cur_page are no longer needed.
IsSafe(cur_page, is_insert) ==
  IF is_insert
  THEN \/ cur_page.page_type # "LEAF" /\ GetSize(cur_page) < cur_page.max_size
       \/ cur_page.page_type = "LEAF" /\ GetSize(cur_page) < cur_page.max_size - 1
  ELSE GetSize(cur_page) > GetMinSize(cur_page)

\* FindLeafPageWriteInsertOrDelete, the loop: cur is the page of cur_page.
\* A page of zeros (read back after it was evicted unwritten) is not a leaf
\* and its ValueAt is page 0, the header page, whose write latch the call
\* holds: FetchPageWrite does not return.
RECURSIVE DescendWrite(_, _, _, _)
DescendWrite(s, cur, key, is_insert) ==
  IF s.failed THEN s
  ELSE IF s.pages[cur].page_type = "LEAF" THEN s
  ELSE IF s.pages[cur].page_type # "INTERNAL" THEN TreeFail(s)
  ELSE LET next_page_id == ValueAt(s.pages[cur], GetKeyIndex(s.pages[cur], key)) IN
       Then(FetchPageWrite(s, next_page_id), LAMBDA s1 :
         DescendWrite([(IF IsSafe(s1.pages[next_page_id], is_insert)
                        THEN DropWriteSet(s1) ELSE s1)
                         EXCEPT !.ctx.write_set = Append(@, next_page_id)],
                      next_page_id, key, is_insert))

\* FindLeafPageWriteInsertOrDelete, lines 450-481: the header page has been
\* fetched.
FindLeafFromHeader(s, key, is_insert) ==
  Then(FetchPageWrite([s EXCEPT !.ctx.root_page_id = RootPageId(s),
                                !.ctx.header_page = TRUE],
                      RootPageId(s)), LAMBDA s2 :
    DescendWrite([s2 EXCEPT !.ctx.write_set = <<RootPageId(s2)>> \o @],
                 RootPageId(s2), key, is_insert))

\* BPlusTree::FindLeafPageWriteInsertOrDelete: the leaf is the back of
\* write_set.
FindLeafPageWriteInsertOrDelete(s, key, is_insert) ==
  Then(FetchPageWrite(s, HEADER_PAGE_ID), LAMBDA s1 :
    FindLeafFromHeader(s1, key, is_insert))

\* InsertNewRoot without the header's SetRootPageId: the header keeps naming
\* the page that was split.
InsertNewRootKeepsHeader(s, risenkey) ==
  Then(TreeNewPage(s), LAMBDA s1 :
    [DropGuard([s1 EXCEPT
                  !.pages[s.b.next_page_id] =
                     CreatNewRoot(InternalInit(s.internal_max_size), risenkey,
                                  s.ctx.page_id, s.ctx.sibling_id)],
               HEADER_PAGE_ID, TRUE)
       EXCEPT !.ctx.header_page = FALSE,
              !.ctx.root_page_id = s.b.next_page_id,
              !.b = UnpinPage(@, s.b.next_page_id, TRUE)])

\* BPlusTree::InsertIntoParent, lines 169-188: ctx.page_id is the root.
InsertNewRoot(s, risenkey) ==
  Then(TreeNewPage(s), LAMBDA s1 :
    [DropGuard([s1 EXCEPT
                  !.pages[s.b.next_page_id] =
                     CreatNewRoot(InternalInit(s.internal_max_size), risenkey,
                                  s.ctx.page_id, s.ctx.sibling_id),
                  !.pages[HEADER_PAGE_ID].root_page_id = s.b.next_page_id],
               HEADER_PAGE_ID, TRUE)
       EXCEPT !.ctx.header_page = FALSE,
              !.ctx.root_page_id = s.b.next_page_id,
              !.b = UnpinPage(@, s.b.next_page_id, TRUE)])

\* BPlusTree::InsertIntoParent for the pages ctx.page_id and ctx.sibling_id.
RECURSIVE InsertIntoParent(_, _)
InsertIntoParent(s, risenkey) ==
  IF s.failed THEN s
  ELSE IF IsRootPage(s.ctx, s.ctx.page_id) THEN InsertNewRoot(s, risenkey)
  ELSE IF s.ctx.write_set = <<>> THEN ThrowWriteSetEmpty(s)
  ELSE LET parent == Last(s.ctx.write_set)
           parent_page == s.pages[parent]
           new_page_id == s.b.next_page_id
           split == InternalSplit(InternalInsert(parent_page, risenkey, s.ctx.sibling_id),
                                  InternalInit(s.internal_max_size))
       IN IF GetSize(parent_page) < parent_page.max_size
          THEN DropGuard([PopBack(s) EXCEPT !.pages[parent] =
                            InternalInsert(parent_page, risenkey, s.ctx.sibling_id)],
                         parent, TRUE)
          ELSE Then(TreeNewPage(PopBack(s)), LAMBDA s1 :
                 Then(InsertIntoParent([s1 EXCEPT !.ctx.sibling_id = new_page_id,
                                                  !.ctx.page_id = parent,
                                                  !.pages[new_page_id] = split.new,
                                                  !.pages[parent] = split.old],
                                       split.risen_key), LAMBDA s2 :
                   DropGuard([s2 EXCEPT !.b = UnpinPage(@, new_page_id, TRUE)],
                             parent, TRUE)))

\* BPlusTree::Insert, lines 135-154: the full leaf is split.
InsertSplit(s, leaf) ==
  LET new_page_id == s.b.next_page_id
      split == LeafSplit(s.pages[leaf], LeafInit(s.leaf_max_size))
  IN Then(TreeNewPage(s), LAMBDA s1 :
       Then(InsertIntoParent(
              OtherNewPages(
                [s1 EXCEPT
                   !.ctx.sibling_id = new_page_id,
                   !.ctx.page_id = leaf,
                   !.pages[new_page_id] =
                      [split.new EXCEPT !.next_page_id = s.pages[leaf].next_page_id],
                   !.pages[leaf] = [split.old EXCEPT !.next_page_id = new_page_id]]),
              split.risen_key), LAMBDA s2 :
         [s2 EXCEPT !.b = UnpinPage(@, new_page_id, TRUE)]))

\* The outcomes of the undefined reads of a call: none does harm, the read
\* of array_[-1] compares equal to the key, or the dereference of the empty
\* header_page_ ends the process.
UndefinedOutcomes == {"none", "before_first", "nullopt"}

\* BPlusTree::Insert, lines 109-122: the first leaf becomes the root.
InsertFirstPage(s, key, value) ==
  Then(TreeNewPage(s), LAMBDA s1 :
    [s1 EXCEPT !.pages[s.b.next_page_id] =
                  SetKeyValueAt(LeafInit(s.leaf_max_size), 0, key, value),
               !.pages[HEADER_PAGE_ID].root_page_id = s.b.next_page_id,
               !.b = UnpinPage(@, s.b.next_page_id, TRUE)])

\* BPlusTree::Insert, lines 108-125: the index is empty.
InsertFirst(s, key, value) ==
  Then(InsertFirstPage(s, key, value), LAMBDA s1 :
    Return(DropGuard(s1, HEADER_PAGE_ID, TRUE), TRUE, TRUE, 0))

\* BPlusTree::Insert, lines 128-163: s is the index after
\* FindLeafPageWriteInsertOrDelete.
InsertIntoLeaf(s, key, value, ub) ==
  IF s.failed THEN s
  ELSE LET leaf == Last(s.ctx.write_set)
           ins == LeafInsert(s.pages[leaf], key, value, ub = "before_first")
           put == [PopBack(s) EXCEPT !.pages[leaf] = ins.page]
       IN IF ~ins.ok THEN Return(PopBack(s), TRUE, FALSE, 0)
          ELSE Return(DropHeaderPage(
                        DropWriteSet(
                          DropGuard(IF GetSize(ins.page) = ins.page.max_size
                                    THEN InsertSplit(put, leaf) ELSE put,
                                    leaf, TRUE)),
                        ub = "nullopt"),
                      TRUE, TRUE, 0)

\* BPlusTree::Insert: ret.ok is the result.
Insert(s, key, value, ub) ==
  Then(FetchPageWrite([s EXCEPT !.held = 0], HEADER_PAGE_ID), LAMBDA s1 :
    IF RootPageId(s1) = INVALID_PAGE_ID
    THEN InsertFirst(s1, key, value)
    ELSE InsertIntoLeaf(
           FindLeafPageWriteInsertOrDelete(DropGuard(s1, HEADER_PAGE_ID, TRUE), key, TRUE),
           key, value, ub))

\* BPlusTree::RootAdjust, lines 419-427 and 433-441: the header page gets
\* the new root and the old root page is deleted.
ReplaceRoot(s, root_page_id, new_root_id) ==
  Then(TreeDeletePage(
         DropGuard([s EXCEPT !.pages[HEADER_PAGE_ID].root_page_id = new_root_id],
                   root_page_id, TRUE),
         root_page_id), LAMBDA s1 :
    [DropGuard(s1, HEADER_PAGE_ID, TRUE) EXCEPT !.ctx.header_page = FALSE])

\* BPlusTree::RootAdjust
RootAdjust(s, root_page_id) ==
  IF s.pages[root_page_id].page_type = "LEAF"
  THEN IF GetSize(s.pages[root_page_id]) = 0
       THEN ReplaceRoot(s, root_page_id, INVALID_PAGE_ID)
       ELSE s
  ELSE IF GetSize(s.pages[root_page_id]) = 1
       THEN ReplaceRoot(s, root_page_id, ValueAt(s.pages[root_page_id], 0))
       ELSE s

\* BPlusTree::MergeOrRedistribute, lines 314-334 and 353-373: page and its
\* sibling become one page and the parent loses an entry.  from is the
\* page that is emptied and deleted, to the page that receives.
MergePages(s, from, to, parent, internal) ==
  LET parent_page == s.pages[parent]
      remove_index == ValueIndex(parent_page, from)
      moved == IF internal
               THEN InternalMoveAll(s.pages[from], s.pages[to], remove_index, parent_page)
               ELSE LeafMoveAll(s.pages[from], s.pages[to])
  IN Then(DropGuard(
            TreeDeletePage(
              DropGuard([s EXCEPT !.pages[from] = moved.from, !.pages[to] = moved.to],
                        from, TRUE),
              from),
            to, TRUE), LAMBDA s1 :
       [s1 EXCEPT !.pages[parent] = InternalRemove(parent_page, remove_index)])

\* BPlusTree::MergeOrRedistribute, lines 340-349 and 379-390: page takes
\* one entry from its sibling and the parent's key follows.
Redistribute(s, page_id, sibling_page_id, parent, internal) ==
  LET parent_page == s.pages[parent]
      page == s.pages[page_id]
      sibling_page == s.pages[sibling_page_id]
      node_in_parent_index == ValueIndex(parent_page, page_id)
      moved == IF node_in_parent_index = 0
               THEN IF internal
                    THEN InternalMoveFrontTo(sibling_page, page, KeyAt(parent_page, 1))
                    ELSE LeafMoveFrontTo(sibling_page, page)
               ELSE IF internal
                    THEN InternalMoveEndTo(sibling_page, page,
                                           KeyAt(parent_page, node_in_parent_index))
                    ELSE LeafMoveEndTo(sibling_page, page)
  IN DropGuard(
       DropGuard([s EXCEPT !.pages[sibling_page_id] = moved.from,
                           !.pages[page_id] = moved.to,
                           !.pages[parent] =
                              SetKeyAt(parent_page,
                                       IF node_in_parent_index = 0 THEN 1
                                       ELSE node_in_parent_index,
                                       moved.key)],
                 sibling_page_id, TRUE),
       page_id, TRUE)

\* BPlusTree::MergeOrRedistribute, lines 314 and 353: the two pages fit
\* into one.
CanMerge(page, sibling_page) ==
  IF page.page_type = "LEAF"
  THEN GetSize(page) + GetSize(sibling_page) < page.max_size
  ELSE GetSize(page) + GetSize(sibling_page) <= page.max_size

\* BPlusTree::MergeOrRedistribute with BPlusTree::FindSibling.
RECURSIVE MergeOrRedistribute(_, _)
MergeOrRedistribute(s, page_id) ==
  IF s.failed THEN s
  ELSE IF IsRootPage(s.ctx, page_id) THEN RootAdjust(s, page_id)
  ELSE IF s.ctx.write_set = <<>> THEN ThrowWriteSetEmpty(s)
  ELSE LET parent == Last(s.ctx.write_set)
           index == ValueIndex(s.pages[parent], page_id)
           sibling_page_id == ValueAt(s.pages[parent],
                                      IF index = 0 THEN index + 1 ELSE index - 1)
           internal == s.pages[page_id].page_type # "LEAF"
       IN IF index = -1 THEN TreeFail(s)
          ELSE Then(FetchPageWrite(s, sibling_page_id), LAMBDA s1 :
                 IF CanMerge(s1.pages[page_id], s1.pages[sibling_page_id])
                 THEN DropGuard(
                        Then(IF index = 0
                             THEN MergePages(PopBack(s1), sibling_page_id, page_id,
                                             parent, internal)
                             ELSE MergePages(PopBack(s1), page_id, sibling_page_id,
                                             parent, internal), LAMBDA s2 :
                          IF GetSize(s2.pages[parent]) < GetMinSize(s2.pages[parent])
                          THEN MergeOrRedistribute(s2, parent)
                          ELSE s2),
                        parent, TRUE)
                 ELSE DropGuard(Redistribute(PopBack(s1), page_id, sibling_page_id,
                                             parent, internal),
                                parent, TRUE))

\* BPlusTree::Remove, lines 274-292: s is the index after
\* FindLeafPageWriteInsertOrDelete.
RemoveFromLeaf(s, key, ub) ==
  IF s.failed THEN s
  ELSE IF s.ctx.write_set = <<>> THEN ThrowWriteSetEmpty(s)
  ELSE LET leaf == Last(s.ctx.write_set)
           removed == RemoveRecord(s.pages[leaf], key)
           put == [PopBack(s) EXCEPT !.pages[leaf] = removed.page]
       IN IF ~removed.ok THEN Return(PopBack(s), TRUE, FALSE, 0)
          ELSE Return(DropHeaderPage(
                        DropWriteSet(
                          IF GetSize(removed.page) < GetMinSize(removed.page)
                          THEN MergeOrRedistribute(put, leaf) ELSE put),
                        ub = "nullopt"),
                      TRUE, TRUE, 0)

\* BPlusTree::Remove: ret.ok tells whether a record was removed.
Remove(s, key, ub) ==
  Then(FetchPageWrite([s EXCEPT !.held = 0], HEADER_PAGE_ID), LAMBDA s1 :
    IF RootPageId(s1) = INVALID_PAGE_ID
    THEN Return(s1, FALSE, FALSE, 0)
    ELSE RemoveFromLeaf(
           FindLeafPageWriteInsertOrDelete(DropGuard(s1, HEADER_PAGE_ID, FALSE), key, FALSE),
           key, ub))

\* BPlusTree::FindLeafPage, the loop: node is the page of node_guard.
RECURSIVE DescendRead(_, _, _)
DescendRead(s, node, key) ==
  IF s.failed THEN s
  ELSE IF s.pages[node].page_type = "LEAF" THEN s
  ELSE LET next_page_id == ValueAt(s.pages[node], GetKeyIndex(s.pages[node], key)) IN
       Then(FetchPageRead(s, next_page_id), LAMBDA s1 :
         DescendRead(DropGuard(s1, node, FALSE), next_page_id, key))

\* BPlusTree::FindLeafPage: at its return leaf_page_guard is the one guard
\* held.
FindLeafPage(s, key) ==
  Then(FetchPageRead(s, HEADER_PAGE_ID), LAMBDA s1 :
    Then(FetchPageRead(s1, RootPageId(s1)), LAMBDA s2 :
      DropGuard(DescendRead(s2, RootPageId(s2), key), HEADER_PAGE_ID, FALSE)))

\* BPlusTree::GetValue, lines 63-72: s is the index after FindLeafPage.
ReadLeaf(s, key) ==
  IF s.failed THEN s
  ELSE LET leaf == CHOOSE p \in s.ctx.guards : TRUE
           hit == ValueAtKey(s.pages[leaf], key)
       IN Return(s, FALSE, hit.found, hit.value)

\* BPlusTree::GetValue: ret is [found, the value found].
GetValue(s, key) ==
  Then(FetchPageRead([s EXCEPT !.held = 0], HEADER_PAGE_ID), LAMBDA s1 :
    IF RootPageId(s1) = INVALID_PAGE_ID
    THEN Return(s1, FALSE, FALSE, 0)
    ELSE ReadLeaf(FindLeafPage(DropGuard(s1, HEADER_PAGE_ID, FALSE), key), key))

\* BPlusTree::BPlusTree on a fresh buffer pool whose first page the caller
\* has created, and keeps pinned, as the header page.
NewTree(pool_size, leaf_max_size, internal_max_size) ==
  Then(FetchPageWrite([b |-> NewPage(NewBufferPool(pool_size, ReplacerK)),
                       pages |-> FnPut(EmptyFn, HEADER_PAGE_ID, ZeroPage),
                       disk |-> EmptyFn,
                       leaf_max_size |-> leaf_max_size,
                       internal_max_size |-> internal_max_size,
                       failed |-> FALSE,
                       thrown |-> "none",
                       held |-> 0,
                       others |-> [pending |-> 0, pages |-> {}],
                       ret |-> [ok |-> FALSE, value |-> 0],
                       ctx |-> EmptyContext],
                      HEADER_PAGE_ID), LAMBDA s1 :
    Return([s1 EXCEPT !.pages[HEADER_PAGE_ID] = HeaderPage], TRUE, FALSE, 0))

(***************************************************************************)
(* INDEX ITERATOR (storage/index/index_iterator.cpp, b_plus_tree.cpp)      *)
(*                                                                         *)
(* An iterator is a record                                                 *)
(*   leaf_page_id   the page id given to the constructor                   *)
(*   leaf_page      the frame leaf_page_ points into: Begin, End and ++    *)
(*                  drop their guard and keep the pointer                  *)
(*   index                                                                 *)
(* Begin and End return [s, it]: the index after the call and the iterator.*)
(***************************************************************************)
\* bpm_->FetchPageBasic and the As that follows it.  A page that is not
\* resident is read from disk into a free frame or into the frame of the
\* replacer's victim, which goes to disk only when its frame is dirty; with
\* no frame to be had the guard holds nullptr.
TreeFetchPageBasic(s, p) ==
  IF s.failed THEN s
  ELSE IF Resident(s.b, p)
       THEN [s EXCEPT !.b = FetchPage(@, p), !.ctx.guards = @ \cup {p}]
  ELSE IF NoFrameAvailable(s.b) THEN TreeFail(s)
  ELSE LET f == PickFrame(s.b)
           evicts == Len(s.b.free_list) = 0
           old == s.b.page_id[f]
           disk == IF evicts /\ s.b.is_dirty[f]
                   THEN FnPut(s.disk, old, s.pages[old]) ELSE s.disk
       IN [s EXCEPT !.b = FetchPage(@, p),
                    !.disk = disk,
                    !.pages = FnPut(IF evicts THEN FnErase(@, old) ELSE @, p,
                                    IF p \in DOMAIN disk THEN disk[p] ELSE ZeroPage),
                    !.ctx.guards = @ \cup {p}]

\* The page in the frame a pointer into the pool points to.
FramePage(s, f) ==
  IF s.b.page_id[f] \in DOMAIN s.pages THEN s.pages[s.b.page_id[f]] ELSE ZeroPage

\* BPlusTree::Begin and End, the loop: tmp holds the guard of page cur, and
\* slot(page) is the slot whose child is followed.  A page that is neither
\* a leaf nor an internal page (zeros read from disk) is not a tree page.
RECURSIVE IterDescend(_, _, _, _)
IterDescend(s, cur, slot(_), fuel) ==
  IF s.failed THEN s
  ELSE IF s.pages[cur].page_type = "LEAF" THEN s
  ELSE IF s.pages[cur].page_type # "INTERNAL" \/ GetSize(s.pages[cur]) = 0 \/ fuel = 0
       THEN TreeFail(s)
  ELSE LET child == ValueAt(s.pages[cur], slot(s.pages[cur])) IN
       Then(TreeFetchPageBasic(s, child), LAMBDA s1 :
         IterDescend(DropGuard(s1, cur, FALSE), child, slot, fuel - 1))

\* Begin and End after the descent: the one guard left is tmp, on the leaf.
\* index(page) is the slot the iterator starts at.
IterAtLeaf(s, index(_)) ==
  IF s.failed THEN [s |-> s, it |-> [leaf_page_id |-> INVALID_PAGE_ID, leaf_page |-> 0, index |-> 0]]
  ELSE LET leaf == CHOOSE p \in s.ctx.guards : p # HEADER_PAGE_ID IN
       [s |-> Return(s, FALSE, TRUE, 0),
        it |-> [leaf_page_id |-> leaf,
                leaf_page |-> s.b.page_table[leaf],
                index |-> index(s.pages[leaf])]]

\* BPlusTree::Begin() and End(), lines 498-515 and 554-571.
IterFromRoot(s, slot(_), index(_)) ==
  IterAtLeaf(
    Then(TreeFetchPageBasic(s, HEADER_PAGE_ID), LAMBDA s1 :
      Then(TreeFetchPageBasic(s1, RootPageId(s1)), LAMBDA s2 :
        IterDescend(s2, RootPageId(s2), slot,
                    Cardinality(DOMAIN s2.pages \cup DOMAIN s2.disk)))),
    index)

\* BPlusTree::IsEmpty through GetRootPageId.
IsEmpty(s) == RootPageId(s) = INVALID_PAGE_ID

\* BPlusTree::Begin() on an index that is not empty.
Begin(s) == IterFromRoot(s, LAMBDA page : 0, LAMBDA page : 0)

\* BPlusTree::End()
End(s) == IterFromRoot(s, LAMBDA page : GetSize(page) - 1, LAMBDA page : GetSize(page))

\* IndexIterator::IsEnd
IsEnd(s, it) ==
  /\ FramePage(s, it.leaf_page).next_page_id = INVALID_PAGE_ID
  /\ it.index = GetSize(FramePage(s, it.leaf_page))

\* IndexIterator::operator*: the pair in slot index of the page leaf_page_
\* points to; a slot past the entries of a page of zeros holds zeros.
IteratorDeref(s, it) ==
  IF it.index < GetSize(FramePage(s, it.leaf_page))
  THEN FramePage(s, it.leaf_page).array[it.index + 1]
  ELSE <<0, 0>>

\* IndexIterator::operator++: [s, it].  The guard of FetchPageBasic is a
\* temporary; leaf_page_id_ is not assigned.
IteratorNext(s, it) ==
  IF IsEnd(s, it) THEN [s |-> s, it |-> it]
  ELSE LET page == FramePage(s, it.leaf_page)
           next_page_id == page.next_page_id
       IN IF it.index + 1 = GetSize(page) /\ next_page_id # INVALID_PAGE_ID
          THEN LET s1 == TreeFetchPageBasic(s, next_page_id) IN
               IF s1.failed
               THEN [s |-> s1, it |-> it]
               ELSE [s |-> Return(s1, FALSE, TRUE, 0),
                     it |-> [it EXCEPT !.leaf_page = s1.b.page_table[next_page_id],
                                       !.index = 0]]
          ELSE [s |-> s, it |-> [it EXCEPT !.index = @ + 1]]

\* IndexIterator::operator==
IteratorEquals(itr, this) ==
  itr.leaf_page_id = this.leaf_page_id /\ itr.index = this.index

(***************************************************************************)
(* B+Tree state machine: any sequence of calls by one caller.              *)
(***************************************************************************)
TreePoolSize == 8
MaxKey == 5
MaxKeyWithReads == 4
NumValues == 2
MaxLeafMax == 4
MaxInternalMax == 3

TreeValues == 1..NumValues

\* The keys the calls are made with.
TreeKeys == DOMAIN stored

NoTreeCall == [op |-> "None", absent |-> FALSE, touched |-> 0]

NoThreads == [t \in {} |-> 0]

\* No scan is in progress.
NoIterator ==
  [live |-> FALSE,
   it |-> [leaf_page_id |-> INVALID_PAGE_ID, leaf_page |-> 0, index |-> 0],
   out |-> <<>>]

InitTreeWith(max_key) ==
  /\ \E leaf_max_size \in 2..MaxLeafMax, internal_max_size \in 3..MaxInternalMax :
       tree = NewTree(TreePoolSize, leaf_max_size, internal_max_size)
  /\ tlast = NoTreeCall
  /\ stored = [k \in 1..max_key |-> 0]
  /\ threads = NoThreads
  /\ iter = NoIterator

InitTree == InitTreeWith(MaxKeyWithReads)

InitTreeWrites == InitTreeWith(MaxKey)

\* The value of the index in the specifications of the other subsystems.
IdleTree ==
  /\ tree = NewTree(1, 2, 3)
  /\ tlast = NoTreeCall
  /\ stored = [k \in 1..1 |-> 0]
  /\ threads = NoThreads
  /\ iter = NoIterator

\* The keys the index holds according to the calls that returned.
StoredKeys == {k \in TreeKeys : stored[k] # 0}

\* The number of pages whose content a call changed.
Touched(old, new) ==
  Cardinality({p \in DOMAIN new.pages :
                 p \notin DOMAIN old.pages \/ new.pages[p] # old.pages[p]})

TreeInsert(key, value, ub) ==
  /\ ~tree.failed
  /\ OnlyTree
  /\ UNCHANGED threads
  /\ \E s \in {Insert(tree, key, value, ub)} :
       /\ tree' = s
       /\ tlast' = [op |-> "Insert", absent |-> key \notin StoredKeys,
                    touched |-> Touched(tree, s)]
       /\ stored' = IF ~s.failed /\ s.ret.ok THEN [stored EXCEPT ![key] = value]
                    ELSE stored

TreeRemove(key, ub) ==
  /\ ~tree.failed
  /\ OnlyTree
  /\ UNCHANGED threads
  /\ \E s \in {Remove(tree, key, ub)} :
       /\ tree' = s
       /\ tlast' = [op |-> "Remove", absent |-> key \notin StoredKeys,
                    touched |-> Touched(tree, s)]
       /\ stored' = IF s.failed THEN stored ELSE [stored EXCEPT ![key] = 0]

TreeGetValue(key) ==
  /\ ~tree.failed
  /\ OnlyTree
  /\ UNCHANGED <<stored, threads>>
  /\ \E s \in {GetValue(tree, key)} :
       /\ tree' = s
       /\ tlast' = [op |-> "GetValue", absent |-> key \notin StoredKeys, touched |-> 0]

\* Insert and Remove calls only.
NextTreeWrites ==
  \/ \E key \in TreeKeys, value \in TreeValues, ub \in UndefinedOutcomes :
       TreeInsert(key, value, ub)
  \/ \E key \in TreeKeys, ub \in UndefinedOutcomes : TreeRemove(key, ub)

NextTree ==
  \/ \E key \in TreeKeys, value \in TreeValues, ub \in UndefinedOutcomes :
       TreeInsert(key, value, ub)
  \/ \E key \in TreeKeys, ub \in UndefinedOutcomes : TreeRemove(key, ub)
  \/ \E key \in TreeKeys : TreeGetValue(key)

\* Inserts of keys that are not stored, in any order; the value inserted
\* with a key is its rank among the Inserts that returned true, so that a
\* state tells the order in which its keys went in.
NextTreeOrder ==
  \E key \in TreeKeys \ StoredKeys, ub \in UndefinedOutcomes :
    TreeInsert(key, Cardinality(StoredKeys) + 1, ub)

(***************************************************************************)
(* Scans: the caller takes an iterator with Begin(), reads *it and applies *)
(* ++ while IsEnd() is false (or while it != End()), and lets the iterator *)
(* go; it calls Insert and Remove only between scans.                      *)
(***************************************************************************)
ScanPoolSize == 6
MaxScanKey == 4
MaxScanSteps == 5

InitTreeScan ==
  /\ \E leaf_max_size \in 2..MaxLeafMax, internal_max_size \in 3..MaxInternalMax :
       tree = NewTree(ScanPoolSize, leaf_max_size, internal_max_size)
  /\ tlast = NoTreeCall
  /\ stored = [k \in 1..MaxScanKey |-> 0]
  /\ threads = NoThreads
  /\ iter = NoIterator

IterBegin ==
  /\ ~tree.failed
  /\ ~iter.live
  /\ ~IsEmpty(tree)
  /\ OnlyIter
  /\ UNCHANGED <<stored, threads>>
  /\ tree' = Begin(tree).s
  /\ tlast' = [op |-> "Begin", absent |-> FALSE, touched |-> 0]
  /\ iter' = [live |-> ~Begin(tree).s.failed, it |-> Begin(tree).it, out |-> <<>>]

\* The body of the loop: read *it, then ++it.
IterStep ==
  /\ ~tree.failed
  /\ iter.live
  /\ ~IsEnd(tree, iter.it)
  /\ Len(iter.out) < MaxScanSteps
  /\ OnlyIter
  /\ UNCHANGED <<stored, threads>>
  /\ tree' = IteratorNext(tree, iter.it).s
  /\ tlast' = [op |-> "++", absent |-> FALSE, touched |-> 0]
  /\ iter' = [iter EXCEPT !.it = IteratorNext(tree, iter.it).it,
                          !.out = Append(@, IteratorDeref(tree, iter.it))]

\* The loop condition it != End(): End() is called once more.
IterCompareEnd ==
  /\ ~tree.failed
  /\ iter.live
  /\ OnlyIter
  /\ UNCHANGED <<stored, threads, iter>>
  /\ tree' = End(tree).s
  /\ tlast' = [op |-> "End", absent |-> FALSE, touched |-> 0]

\* The iterator goes out of scope (its destructor does nothing).
IterDestroy ==
  /\ iter.live
  /\ OnlyIter
  /\ UNCHANGED <<tree, tlast, stored, threads>>
  /\ iter' = NoIterator

NextTreeScan ==
  \/ ~iter.live /\ NextTreeWrites
  \/ IterBegin
  \/ IterStep
  \/ IterDestroy

NextTreeScanEnd ==
  \/ NextTreeScan
  \/ IterCompareEnd

\* The index on a buffer pool that other threads allocate pages from.
SharedPoolSize == 4

MaxSharedKey == 4

MaxOthers == 2

InitTreeShared ==
  /\ \E pool_size \in 1..SharedPoolSize, leaf_max_size \in 2..MaxLeafMax,
        internal_max_size \in 3..MaxInternalMax :
       tree = NewTree(pool_size, leaf_max_size, internal_max_size)
  /\ tlast = NoTreeCall
  /\ stored = [k \in 1..MaxSharedKey |-> 0]
  /\ threads = NoThreads
  /\ iter = NoIterator

\* Insert while other threads make `others` NewPage calls.
TreeInsertShared(key, value, ub, others) ==
  /\ ~tree.failed
  /\ OnlyTree
  /\ UNCHANGED threads
  /\ \E s \in {Insert([tree EXCEPT !.others.pending = others], key, value, ub)} :
       /\ tree' = [s EXCEPT !.others.pending = 0]
       /\ tlast' = [op |-> "Insert", absent |-> key \notin StoredKeys,
                    touched |-> Touched(tree, s)]
       /\ stored' = IF ~s.failed /\ s.ret.ok THEN [stored EXCEPT ![key] = value]
                    ELSE stored

NextTreeShared ==
  \/ \E key \in TreeKeys, value \in TreeValues, ub \in UndefinedOutcomes,
        others \in 0..MaxOthers :
       TreeInsertShared(key, value, ub, others)
  \/ \E key \in TreeKeys, ub \in UndefinedOutcomes : TreeRemove(key, ub)
  \/ \E key \in TreeKeys : TreeGetValue(key)

(***************************************************************************)
(* Two threads call Insert on one index (b_plus_tree.cpp, page_guard.cpp,  *)
(* buffer_pool_manager.cpp).                                               *)
(*                                                                         *)
(* Every Insert works under the write latch of the header page, from       *)
(* FetchPageWrite(header_page_id_) to the Drop of that guard, so what a    *)
(* call does under the latch is one step.  The buffer pool takes no mutex  *)
(* in NewPage, FetchPage and UnpinPage, and the steps around the latch are *)
(* the ones that meet another thread:                                      *)
(*   latch   FetchPageWrite: page_table_.find, then WLatch                 *)
(*   pin     FetchPageWrite: FetchPage, pin_count_++ with the count loaded *)
(*           after WLatch                                                  *)
(*   body    the call under the latch, up to WUnlatch in Drop              *)
(*   unpin   Drop: UnpinPage loads pin_count_ after WUnlatch               *)
(*   unpinw  Drop: UnpinPage stores pin_count_ - 1                         *)
(* threads.latch is the holder of the header latch, 0 when it is free.     *)
(* phase 1 is Insert up to line 126, phase 2 the rest, which fetches the   *)
(* header page again.  Thread t inserts its keys with value t.             *)
(***************************************************************************)
NumThreads == 2
KeysPerThread == 2

Threads == 1..NumThreads

ConcKeys == 1..(NumThreads * KeysPerThread)

\* A lookup in page_table_ that overlaps another thread's write of it sees
\* the table, or follows freed memory and ends the process.
RaceOutcomes == {"none", "race"}

RECURSIVE Ascending(_)
Ascending(S) ==
  IF S = {} THEN <<>> ELSE <<MinOf(S)>> \o Ascending(S \ {MinOf(S)})

NewThread(todo) ==
  [pc |-> "latch", todo |-> todo, phase |-> 1, pin |-> 0, raced |-> FALSE,
   finished |-> FALSE]

InitConc ==
  /\ \E leaf_max_size \in 2..MaxLeafMax, internal_max_size \in 3..MaxInternalMax :
       tree = NewTree(TreePoolSize, leaf_max_size, internal_max_size)
  /\ tlast = NoTreeCall
  /\ stored = [k \in ConcKeys |-> 0]
  /\ \E owner \in [ConcKeys -> Threads] :
       /\ \A t \in Threads :
            Cardinality({k \in ConcKeys : owner[k] = t}) = KeysPerThread
       /\ threads = [latch |-> 0,
                     thr |-> [t \in Threads |->
                                NewThread(Ascending({k \in ConcKeys : owner[k] = t}))]]
  /\ iter = NoIterator

HeaderFrame(b) == b.page_table[HEADER_PAGE_ID]

\* The thread's position after the Drop of the header guard.
AfterDrop(thr) ==
  IF thr.finished
  THEN [thr EXCEPT !.todo = Tail(@), !.phase = 1, !.finished = FALSE,
                   !.raced = FALSE,
                   !.pc = IF Tail(thr.todo) = <<>> THEN "done" ELSE "latch"]
  ELSE [thr EXCEPT !.phase = 2, !.raced = FALSE, !.pc = "latch"]

\* FetchPageWrite(header_page_id_), lines 178-182 of the buffer pool: the
\* lookup, a null guard for a page that is not resident, WLatch, and the
\* load of pin_count_ in FetchPage.
ConcLatch(t, ub) ==
  /\ ~tree.failed
  /\ OnlyTree
  /\ threads.thr[t].pc = "latch"
  /\ threads.latch = 0
  /\ UNCHANGED <<tlast, stored>>
  /\ IF (threads.thr[t].raced /\ ub = "race") \/ ~Resident(tree.b, HEADER_PAGE_ID)
     THEN tree' = TreeFail(tree) /\ UNCHANGED threads
     ELSE /\ tree' = tree
          /\ threads' = [threads EXCEPT
                           !.latch = t,
                           !.thr[t].pc = "pin",
                           !.thr[t].raced = FALSE,
                           !.thr[t].pin = tree.b.pin_count[HeaderFrame(tree.b)]]

\* FetchPage, line 76: pin_count_++ stores the loaded count plus one.
ConcPin(t) ==
  /\ ~tree.failed
  /\ OnlyTree
  /\ threads.thr[t].pc = "pin"
  /\ UNCHANGED <<tlast, stored>>
  /\ tree' = [tree EXCEPT !.b = FetchPage([@ EXCEPT !.pin_count[HeaderFrame(@)] =
                                                       threads.thr[t].pin],
                                          HEADER_PAGE_ID)]
  /\ threads' = [threads EXCEPT !.thr[t].pc = "body"]

\* Insert under the header latch.  Phase 1, lines 107-126: the first key
\* makes the root, or the header guard is dropped.  Phase 2, lines 127-163
\* after FindLeafPageWriteInsertOrDelete has fetched the header page.  The
\* thread keeps the pin of the header guard, so ctx.guards is without it.
ConcInsert(s, phase, key, value, ub) ==
  IF phase = 1
  THEN IF RootPageId(s) = INVALID_PAGE_ID
       THEN Return(InsertFirstPage([s EXCEPT !.ctx.latched = {HEADER_PAGE_ID}],
                                   key, value),
                   TRUE, TRUE, 0)
       ELSE s
  ELSE InsertIntoLeaf(FindLeafFromHeader([s EXCEPT !.ctx.latched = {HEADER_PAGE_ID}],
                                         key, TRUE),
                      key, value, ub)

\* The call under the latch and the WUnlatch of the header guard's Drop.  A
\* call that writes page_table_ overlaps the lookups of the other threads
\* that are inside FetchPageWrite or UnpinPage.
ConcBody(t, ub) ==
  /\ ~tree.failed
  /\ OnlyTree
  /\ threads.thr[t].pc = "body"
  /\ UNCHANGED tlast
  /\ \E s \in {ConcInsert(tree, threads.thr[t].phase, Head(threads.thr[t].todo), t, ub)} :
       LET finished == threads.thr[t].phase = 2 \/ RootPageId(tree) = INVALID_PAGE_ID
           wrote == s.b.page_table # tree.b.page_table
       IN /\ tree' = s
          /\ stored' = IF finished /\ ~s.failed /\ s.ret.ok
                       THEN [stored EXCEPT ![Head(threads.thr[t].todo)] = t]
                       ELSE stored
          /\ threads' =
               [latch |-> 0,
                thr |-> [u \in Threads |->
                           IF u = t
                           THEN [threads.thr[u] EXCEPT !.pc = "unpin",
                                                       !.finished = finished]
                           ELSE IF threads.thr[u].pc \in {"latch", "unpin", "unpinw"}
                                THEN [threads.thr[u] EXCEPT !.raced = @ \/ wrote]
                                ELSE threads.thr[u]]]

\* UnpinPage, lines 107-112: the lookup, the return of false, and the load
\* of pin_count_.
ConcUnpin(t, ub) ==
  /\ ~tree.failed
  /\ OnlyTree
  /\ threads.thr[t].pc = "unpin"
  /\ UNCHANGED <<tlast, stored>>
  /\ IF threads.thr[t].raced /\ ub = "race"
     THEN tree' = TreeFail(tree) /\ UNCHANGED threads
     ELSE /\ tree' = tree
          /\ threads' =
               IF ~Resident(tree.b, HEADER_PAGE_ID)
                  \/ tree.b.pin_count[HeaderFrame(tree.b)] <= 0
               THEN [threads EXCEPT !.thr[t] = AfterDrop(@)]
               ELSE [threads EXCEPT
                       !.thr[t].pc = "unpinw",
                       !.thr[t].pin = tree.b.pin_count[HeaderFrame(tree.b)]]

\* UnpinPage, lines 113-118: pin_count_-- stores the loaded count minus
\* one, the frame becomes evictable at 0, is_dirty_ is set.
ConcUnpinWrite(t, ub) ==
  /\ ~tree.failed
  /\ OnlyTree
  /\ threads.thr[t].pc = "unpinw"
  /\ UNCHANGED <<tlast, stored>>
  /\ IF threads.thr[t].raced /\ ub = "race"
     THEN tree' = TreeFail(tree) /\ UNCHANGED threads
     ELSE /\ tree' = [tree EXCEPT !.b = UnpinPage([@ EXCEPT !.pin_count[HeaderFrame(@)] =
                                                               threads.thr[t].pin],
                                                  HEADER_PAGE_ID, TRUE)]
          /\ threads' = [threads EXCEPT !.thr[t] = AfterDrop(@)]

NextConc ==
  \/ \E t \in Threads, ub \in RaceOutcomes : ConcLatch(t, ub)
  \/ \E t \in Threads : ConcPin(t)
  \/ \E t \in Threads, ub \in UndefinedOutcomes : ConcBody(t, ub)
  \/ \E t \in Threads, ub \in RaceOutcomes : ConcUnpin(t, ub)
  \/ \E t \in Threads, ub \in RaceOutcomes : ConcUnpinWrite(t, ub)

AllDone == \A t \in Threads : threads.thr[t].pc = "done"

BetweenCheckAndDescent(thr) ==
  \/ thr.phase = 1 /\ ~thr.finished /\ thr.pc \in {"unpin", "unpinw"}
  \/ thr.phase = 2 /\ thr.pc \in {"latch", "pin"}

\* C33: from the emptiness check of Insert to its descent the thread holds
\* the exclusive latch of the header page without a gap.
C33_HeaderHeldFromCheckToDescent ==
  \A t \in Threads :
    BetweenCheckAndDescent(threads.thr[t]) => threads.latch = t


(***************************************************************************)
(* The shape of the index, read from its pages wherever they are.          *)
(***************************************************************************)
PageOf(s, p) ==
  IF p \in DOMAIN s.pages THEN s.pages[p]
  ELSE IF p \in DOMAIN s.disk THEN s.disk[p] ELSE ZeroPage

AllPages(s) == DOMAIN s.pages \cup DOMAIN s.disk

TreeRoot(s) == PageOf(s, HEADER_PAGE_ID).root_page_id

\* The leaves below page p, left to right.
RECURSIVE LeavesUnder(_, _, _)
RECURSIVE LeavesOfChildren(_, _, _)
LeavesUnder(s, p, fuel) ==
  IF PageOf(s, p).page_type # "INTERNAL" \/ fuel = 0 THEN <<p>>
  ELSE LeavesOfChildren(s, PageOf(s, p).array, fuel - 1)

LeavesOfChildren(s, entries, fuel) ==
  IF entries = <<>> THEN <<>>
  ELSE LeavesUnder(s, Head(entries)[2], fuel) \o LeavesOfChildren(s, Tail(entries), fuel)

\* The pages below page p, p included.
RECURSIVE PagesUnder(_, _, _)
PagesUnder(s, p, fuel) ==
  IF PageOf(s, p).page_type # "INTERNAL" \/ fuel = 0 THEN {p}
  ELSE {p} \cup UNION {PagesUnder(s, e[2], fuel - 1) : e \in Range(PageOf(s, p).array)}

TreePages(s) ==
  IF TreeRoot(s) = INVALID_PAGE_ID THEN {}
  ELSE PagesUnder(s, TreeRoot(s), Cardinality(AllPages(s)))

\* The pages met from page p on by following next_page_id.
RECURSIVE ChainFrom(_, _, _)
ChainFrom(s, p, fuel) ==
  IF p = INVALID_PAGE_ID \/ fuel = 0 THEN <<>>
  ELSE <<p>> \o ChainFrom(s, PageOf(s, p).next_page_id, fuel - 1)

\* The keys of a sequence of pages, in the order they are met.
RECURSIVE KeysAlong(_, _)
KeysAlong(s, ps) ==
  IF ps = <<>> THEN <<>>
  ELSE [i \in 1..GetSize(PageOf(s, Head(ps))) |-> PageOf(s, Head(ps)).array[i][1]]
         \o KeysAlong(s, Tail(ps))

StrictlyAscending(ks) == \A i \in 1..(Len(ks) - 1) : ks[i] < ks[i + 1]

SubtreeKeys(s, p) == Range(KeysAlong(s, LeavesUnder(s, p, Cardinality(AllPages(s)))))

LeafChainSorted(s) ==
  IF TreeRoot(s) = INVALID_PAGE_ID THEN StoredKeys = {}
  ELSE LET n == Cardinality(AllPages(s))
           leaves == LeavesUnder(s, TreeRoot(s), n)
           chain == ChainFrom(s, leaves[1], n + 1)
       IN /\ \A i \in 1..Len(leaves) :
               /\ PageOf(s, leaves[i]).page_type = "LEAF"
               /\ StrictlyAscending(KeysAlong(s, <<leaves[i]>>))
          /\ chain = leaves
          /\ StrictlyAscending(KeysAlong(s, chain))
          /\ Range(KeysAlong(s, chain)) = StoredKeys

NodeSizesInBounds(s) ==
  \A p \in TreePages(s) \ {TreeRoot(s)} :
    LET page == PageOf(s, p)
        max_size == IF page.page_type = "LEAF" THEN s.leaf_max_size
                    ELSE s.internal_max_size
    IN /\ page.max_size = max_size
       /\ (max_size + 1) \div 2 <= GetSize(page)
       /\ GetSize(page) <= max_size

SeparatorsAreMinima(s) ==
  \A p \in TreePages(s) :
    PageOf(s, p).page_type = "INTERNAL" =>
      \A i \in 1..(GetSize(PageOf(s, p)) - 1) :
        LET keys == SubtreeKeys(s, ValueAt(PageOf(s, p), i)) IN
        keys # {} /\ MinOf(keys) = KeyAt(PageOf(s, p), i)

\* C2: the index is a unique-key map.  Every call returns; GetValue(k)
\* finds the value of the last Insert of k that returned true and was not
\* followed by Remove(k), and nothing for any other key; Insert returns true
\* exactly for a key that is not present.
C2_UniqueKeyMap ==
  /\ ~tree.failed
  /\ \A k \in TreeKeys :
       /\ ~GetValue(tree, k).failed
       /\ GetValue(tree, k).ret.ok <=> k \in StoredKeys
       /\ GetValue(tree, k).ret.ok => GetValue(tree, k).ret.value = stored[k]
  /\ tlast.op = "Insert" => (tree.ret.ok <=> tlast.absent)
  /\ tlast.op = "GetValue" => (tree.ret.ok <=> ~tlast.absent)

\* C6: after any sequence of completed Insert and Remove calls the keys of
\* every leaf are strictly ascending, and the chain of next_page_id from the
\* leftmost leaf visits every leaf exactly once, yields exactly the stored
\* keys in ascending order and ends at INVALID_PAGE_ID.
C6_LeafChainSorted == ~tree.failed => LeafChainSorted(tree)

\* A Remove that moved an entry between two leaves of a chain has completed.
C6_Witness ==
  /\ ~tree.failed
  /\ tlast.op = "Remove"
  /\ tlast.touched = 3
  /\ Len(LeavesUnder(tree, TreeRoot(tree), Cardinality(AllPages(tree)))) >= 2

\* C7: after any sequence of completed Insert and Remove calls every page
\* other than the root has min_size <= size <= max_size, with max_size the
\* leaf or internal maximum of the index and min_size = ceil(max_size / 2).
C7_NodeSizesInBounds == ~tree.failed => NodeSizesInBounds(tree)

\* C8: after any sequence of completed Insert and Remove calls the key of
\* every slot i > 0 of every internal page equals the smallest key stored
\* below the child of that slot.
C8_SeparatorsAreMinima == ~tree.failed => SeparatorsAreMinima(tree)

\* C9: two threads insert disjoint sets of keys into one index.  Both
\* threads finish: no call ends the process or waits for ever.  When both
\* have finished, GetValue finds every key with the value its thread
\* inserted, every page other than the root is within its size bounds, the
\* leaf chain is strictly sorted and every separator is the smallest key
\* of its subtree.
C9_ConcurrentInserts ==
  /\ ~tree.failed
  /\ AllDone =>
       /\ \A k \in ConcKeys :
            /\ ~GetValue(tree, k).failed
            /\ GetValue(tree, k).ret.ok
            /\ \E t \in Threads : GetValue(tree, k).ret.value = t /\ stored[k] = t
       /\ NodeSizesInBounds(tree)
       /\ LeafChainSorted(tree)
       /\ SeparatorsAreMinima(tree)

\* The root id and every page of the index are the same in s and in new.
SameTree(s, new) ==
  /\ TreeRoot(new) = TreeRoot(s)
  /\ AllPages(new) = AllPages(s)
  /\ \A p \in AllPages(s) : PageOf(new, p) = PageOf(s, p)

\* C21: Insert of a key that is present returns false, and Remove of a key
\* that is not present (also on an empty index) returns normally; after
\* either call the root id and the content of every page of the index are
\* what they were before the call, so the old value stays.
C21_NoOpCallsChangeNothing ==
  ~tree.failed =>
    /\ \A k \in StoredKeys, v \in TreeValues, ub \in UndefinedOutcomes :
         /\ ~Insert(tree, k, v, ub).failed
         /\ ~Insert(tree, k, v, ub).ret.ok
         /\ SameTree(tree, Insert(tree, k, v, ub))
    /\ \A k \in TreeKeys \ StoredKeys, ub \in UndefinedOutcomes :
         /\ ~Remove(tree, k, ub).failed
         /\ SameTree(tree, Remove(tree, k, ub))

\* An Insert of a present key has returned false from an index of more than
\* one level.
C21_Witness ==
  /\ ~tree.failed
  /\ tlast.op = "Insert"
  /\ ~tlast.absent
  /\ ~tree.ret.ok
  /\ tlast.touched = 0
  /\ PageOf(tree, TreeRoot(tree)).page_type = "INTERNAL"

\* The stored pairs in ascending key order.
StoredPairs == [i \in 1..Cardinality(StoredKeys) |->
                  <<Ascending(StoredKeys)[i], stored[Ascending(StoredKeys)[i]]>>]

\* C22: on an index that is not empty, Begin() followed by ++ while IsEnd()
\* is false yields every stored (key, value) pair exactly once in strictly
\* ascending key order: no step of the scan fails, what has been yielded so
\* far is the front of the stored pairs, and IsEnd() becomes true exactly
\* when all of them have been yielded.
C22_ScanYieldsStoredPairs ==
  /\ tlast.op \in {"Begin", "++"} => ~tree.failed
  /\ (iter.live /\ ~tree.failed) =>
       /\ Len(iter.out) <= Len(StoredPairs)
       /\ iter.out = SubSeq(StoredPairs, 1, Len(iter.out))
       /\ IsEnd(tree, iter.it) <=> Len(iter.out) = Len(StoredPairs)

\* A scan over more than one leaf has reached the end.
C22_Witness ==
  /\ iter.live
  /\ ~tree.failed
  /\ IsEnd(tree, iter.it)
  /\ iter.it.leaf_page # tree.b.page_table[iter.it.leaf_page_id]
  /\ Len(iter.out) >= 3

\* C23: an iterator obtained from Begin() and advanced with ++ compares
\* equal to End() after exactly as many steps as the index has entries, also
\* when the index has more than one leaf, and it equals End() exactly when
\* IsEnd() is true.
C23_EqualsEndExactlyAtEnd ==
  (iter.live /\ ~tree.failed) =>
    /\ ~End(tree).s.failed
    /\ IteratorEquals(End(tree).it, iter.it) <=> IsEnd(tree, iter.it)
    /\ IteratorEquals(End(tree).it, iter.it) <=> Len(iter.out) = Cardinality(StoredKeys)

\* C36: while an iterator is positioned on a leaf, the frame its leaf_page_
\* points to holds a pin: after Begin() and after every ++ the pin count of
\* that frame is above zero, so the frame cannot be evicted, deleted or given
\* to another page before the next dereference.
C36_IteratorLeafStaysPinned ==
  (iter.live /\ ~tree.failed) => tree.b.pin_count[iter.it.leaf_page] > 0

\* The number of levels of the index: pages on the way from the root to the
\* leftmost leaf.
RECURSIVE LevelsFrom(_, _, _)
LevelsFrom(s, p, fuel) ==
  IF PageOf(s, p).page_type # "INTERNAL" \/ fuel = 0 THEN 1
  ELSE 1 + LevelsFrom(s, ValueAt(PageOf(s, p), 0), fuel - 1)

Levels(s) ==
  IF TreeRoot(s) = INVALID_PAGE_ID THEN 0
  ELSE LevelsFrom(s, TreeRoot(s), Cardinality(AllPages(s)))

\* The index holds exactly the first n keys of the sequence 5, 4, 3, 2, 1,
\* inserted in that order: Insert returned true for each of them.
InsertedDescending(n) ==
  \A k \in TreeKeys :
    stored[k] = IF k <= 5 /\ k > 5 - n THEN 6 - k ELSE 0

DescendingTree(n) ==
  /\ tree.leaf_max_size = 3
  /\ tree.internal_max_size = 3
  /\ ~tree.failed
  /\ InsertedDescending(n)

\* C24 as stated: with leaf_max_size = 3 and internal_max_size = 3, inserting
\* the keys 5, 4, 3, 2, 1 in that order into an empty index gives two levels
\* right after key 3 is inserted and three levels right after key 2 is
\* inserted.
C24_DescendingInsertLevels ==
  /\ DescendingTree(3) => Levels(tree) = 2
  /\ DescendingTree(4) => Levels(tree) = 3

\* C24, amended: with leaf_max_size = 3 and internal_max_size = 3, inserting
\* the keys 5, 4, 3, 2, 1 in that order into an empty index gives one level
\* after keys 5 and 4, two levels right after key 3 is inserted, still two
\* levels after key 2, and three levels right after key 1 is inserted.
C24_LevelsAfterEachInsert ==
  /\ DescendingTree(1) => Levels(tree) = 1
  /\ DescendingTree(2) => Levels(tree) = 1
  /\ DescendingTree(3) => Levels(tree) = 2
  /\ DescendingTree(4) => Levels(tree) = 2
  /\ DescendingTree(5) => Levels(tree) = 3

C24_Witness ==
  /\ DescendingTree(5)
  /\ tlast.op = "Insert"
  /\ tree.ret.ok
  /\ Levels(tree) = 3

\* The frames that stay pinned when no call is running: the caller keeps
\* its pin of the header page, other threads keep their pins of their pages.
PinsLeft(s) ==
  {f \in Frames(s.b) :
     s.b.pin_count[f] >
       IF s.b.page_id[f] \in {HEADER_PAGE_ID} \cup s.others.pages THEN 1 ELSE 0}

CallEnded ==
  /\ tlast.op \in {"GetValue", "Insert", "Remove"}
  /\ ~tree.failed \/ tree.thrown = "OUT_OF_MEMORY"

\* C25: whenever GetValue, Insert or Remove returns, or throws because
\* NewPage had no frame during a leaf split, an internal split or the
\* creation of a new root, the call holds no guard any more and no page
\* stays pinned by it.
C25_CallsLeaveNothingHeld ==
  CallEnded => tree.ctx.guards = {} /\ PinsLeft(tree) = {}

\* The root page is a leaf without entries, or an internal page with one
\* child.
RootUncollapsed(s) ==
  /\ TreeRoot(s) # INVALID_PAGE_ID
  /\ TreeRoot(s) \in DOMAIN s.pages
  /\ \/ PageOf(s, TreeRoot(s)).page_type = "LEAF" /\ GetSize(PageOf(s, TreeRoot(s))) = 0
     \/ PageOf(s, TreeRoot(s)).page_type = "INTERNAL" /\ GetSize(PageOf(s, TreeRoot(s))) = 1

\* The call that just ended was the Remove of the only key of the index:
\* stored keeps the key when the call did not return.
RemovedLastKey ==
  /\ tlast.op = "Remove"
  /\ ~tlast.absent
  /\ Cardinality(StoredKeys) = IF tree.failed THEN 1 ELSE 0

\* C26: after any Remove returns the root is neither an empty leaf nor an
\* internal page with one child, and the Remove of the last key returns
\* with the header's root id INVALID_PAGE_ID, so that IsEmpty is true.
C26_RootCollapses ==
  /\ (tlast.op = "Remove" /\ ~tree.failed) => ~RootUncollapsed(tree)
  /\ RemovedLastKey => ~tree.failed /\ IsEmpty(tree)

\* ---- the lock manager's calls, step by step
\* The step is a LockTable or LockRow call of t that ends without waiting:
\* lret' has its arguments and its result.
LockCallEnds(t, op) ==
  /\ ncalls'[t] = ncalls[t] + 1
  /\ lret'.txn = t
  /\ lret'.op = op

\* What a call that only checks must leave alone.
LocksUntouched ==
  UNCHANGED <<table_lock_map, row_lock_map, table_lock_set, row_lock_set>>

\* The call asks for the mode t holds on the resource, in a state and at an
\* isolation level that allow the mode.
SameModeRequest(t) ==
  \/ /\ LockCallEnds(t, "LockTable")
     /\ <<lret'.mode, lret'.res[2]>> \in table_lock_set[t]
     /\ TableLockPolicy(txn_state[t], iso_level[t], lret'.mode) = "OK"
  \/ /\ LockCallEnds(t, "LockRow")
     /\ <<lret'.mode, RowTable(lret'.res[2]), lret'.res[2]>> \in row_lock_set[t]
     /\ RowLockPolicy(txn_state[t], iso_level[t], lret'.mode, table_lock_set[t],
                      RowTable(lret'.res[2])) = "OK"

\* C27: LockTable or LockRow for exactly the mode the transaction holds on
\* the resource returns true and changes neither the queues (requests and
\* upgrading marker), nor the transaction's lock sets, nor its state.
C27_SameModeIsNoOp ==
  [][\A t \in Txns :
       SameModeRequest(t) =>
         /\ lret'.ret = "true"
         /\ LocksUntouched
         /\ UNCHANGED txn_state]_vars

\* The AbortReasons of the checks of LockTable, LockRow, UnlockTable and
\* UnlockRow.
CheckReasons ==
  {"LOCK_ON_SHRINKING", "LOCK_SHARED_ON_READ_UNCOMMITTED", "UPGRADE_CONFLICT",
   "INCOMPATIBLE_UPGRADE", "ATTEMPTED_INTENTION_LOCK_ON_ROW", "TABLE_LOCK_NOT_PRESENT",
   "ATTEMPTED_UNLOCK_BUT_NO_LOCK_HELD", "TABLE_UNLOCKED_BEFORE_UNLOCKING_ROWS"}

\* The step is a call of t that ends in a TransactionAbortException.
CallThrows(t) ==
  /\ tpc[t] = "idle"
  /\ tpc'[t] = "threw"

\* C28: a call of LockTable, LockRow, UnlockTable or UnlockRow that fails a
\* check throws one of the AbortReasons with the transaction's state set to
\* ABORTED, and leaves every request queue and the lock sets as they were.
C28_FailedCheckOnlyAborts ==
  [][\A t \in Txns :
       CallThrows(t) =>
         /\ lret'.txn = t
         /\ lret'.ret = "abort"
         /\ lret'.reason \in CheckReasons
         /\ txn_state'[t] = "ABORTED"
         /\ \A u \in Txns \ {t} : txn_state'[u] = txn_state[u]
         /\ LocksUntouched]_vars

\* A second upgrade on a queue whose upgrading marker is set has just been
\* refused: the waiting upgrade of the other transaction is still queued.
C28_Witness ==
  /\ lret.ret = "abort"
  /\ lret.reason = "UPGRADE_CONFLICT"
  /\ lret.txn \in Txns
  /\ tpc[lret.txn] = "threw"
  /\ txn_state[lret.txn] = "ABORTED"
  /\ QueueAt(lret.res).upgrading \in Txns \ {lret.txn}

\* The state of a transaction after it released a lock of the given mode.
AfterRelease(state, iso, mode) ==
  IF /\ state = "GROWING"
     /\ \/ iso = "REPEATABLE_READ" /\ mode \in {"S", "X"}
        \/ iso \in {"READ_COMMITTED", "READ_UNCOMMITTED"} /\ mode = "X"
  THEN "SHRINKING"
  ELSE state

\* The step is an unlock call of t on res that returns true.
Unlocked(t, op, res) ==
  /\ lret'.txn = t
  /\ lret'.ret = "true"
  /\ lret'.op = op
  /\ lret'.res = res

TablePermitsRow(tls, oid, row_mode) ==
  IF row_mode = "X"
  THEN \E m \in {"IX", "X"} : <<m, oid>> \in tls
  ELSE \E m \in {"IS", "IX", "S", "SIX", "X"} : <<m, oid>> \in tls

\* C30: in every state, each row lock in a transaction's row lock set is
\* covered by a lock of its table in the transaction's table lock set that
\* permits it, also while an upgrade of that table lock waits and after it
\* was aborted.
C30_RowLocksUnderTableLock ==
  \A t \in Txns : \A e \in row_lock_set[t] :
    TablePermitsRow(table_lock_set[t], e[2], e[1])

\* C38: while a guard returned by FetchPageRead or FetchPageWrite holds the
\* latch of a frame, the frame keeps the page the guard was fetched for: no
\* step of another call puts a different page in a latched frame.
C38_GuardedFrameKeepsPage ==
  [][\A f \in Frames(bpm) :
       (bpm.rwlatch[f] # 0 /\ bpm'.rwlatch[f] # 0) => bpm'.page_id[f] = bpm.page_id[f]]_vars

(***************************************************************************)
(* THREADS INSIDE BUFFER POOL CALLS.  NewPage, FetchPage and UnpinPage take *)
(* no mutex (only NewPageGuarded locks latch_, line 188), so the statements *)
(* of calls made by different threads interleave.  A step is a statement or *)
(* a group of statements of one call; DeletePage and FlushPage run as one   *)
(* step between the steps of the other calls.                               *)
(***************************************************************************)
NumCallers == 2
MaxCallerCalls == 3
Callers == 1..NumCallers

\* pc: idle, pop (before free_list_.pop_front), install (before the page
\* table is written), pin (before pin_count_ is read), pinned (before it is
\* written) or unpin (UnpinPage before pin_count_ is written); frame:
\* new_frame_id / the frame of page_ptr; seen: the pin count read; hit: the
\* page was found in the page table.
NoCaller ==
  [pc |-> "idle", op |-> "none", page_id |-> INVALID_PAGE_ID, frame |-> NullFrame,
   seen |-> 0, hit |-> FALSE, dirty |-> FALSE, ncalls |-> 0]

InitCallers == callers = [th \in Callers |-> NoCaller]

IdleCallers == InitCallers

CanStart(th) ==
  /\ callers[th].pc = "idle"
  /\ callers[th].ncalls < MaxCallerCalls
  /\ BpmRunning

\* The call of th returns.
Returned(c) == [NoCaller EXCEPT !.ncalls = c.ncalls + 1]

\* Lines 41-60 and 78-96 without pop_front: the nullptr return, the read of
\* free_list_.front(), or the eviction of a victim.
SelectFrame(th, op, p) ==
  IF NoFrameAvailable(bpm)
  THEN /\ callers' = [callers EXCEPT ![th] = Returned(@)]
       /\ UNCHANGED bpm
  ELSE IF Len(bpm.free_list) > 0
  THEN /\ callers' = [callers EXCEPT ![th] =
                        [@ EXCEPT !.pc = "pop", !.op = op, !.page_id = p,
                                  !.frame = bpm.free_list[1]]]
       /\ UNCHANGED bpm
  ELSE /\ callers' = [callers EXCEPT ![th] =
                        [@ EXCEPT !.pc = "install", !.op = op, !.page_id = p,
                                  !.frame = EvictVictim(bpm.replacer)]]
       /\ bpm' = TakeFrame(bpm)

\* BufferPoolManager::NewPage, lines 41-60.
CallNewPage(th) ==
  /\ OnlyCallers
  /\ CanStart(th)
  /\ bpm.next_page_id < MaxPages
  /\ SelectFrame(th, "NewPage", INVALID_PAGE_ID)

\* BufferPoolManager::FetchPage, lines 74-96.
CallFetchPage(th, p) ==
  /\ OnlyCallers
  /\ CanStart(th)
  /\ p < bpm.next_page_id
  /\ IF Resident(bpm, p)
     THEN /\ callers' = [callers EXCEPT ![th] =
                           [@ EXCEPT !.pc = "pin", !.op = "FetchPage", !.page_id = p,
                                     !.frame = bpm.page_table[p], !.hit = TRUE]]
          /\ UNCHANGED bpm
     ELSE SelectFrame(th, "FetchPage", p)

\* Lines 48 and 84: free_list_.pop_front().  On a list another thread has
\* emptied the call is undefined: the list stays empty or the process ends.
PopFront(th) ==
  /\ OnlyCallers
  /\ BpmRunning
  /\ callers[th].pc = "pop"
  /\ callers' = [callers EXCEPT ![th].pc = "install"]
  /\ IF Len(bpm.free_list) > 0
     THEN bpm' = [bpm EXCEPT !.free_list = Tail(@)]
     ELSE \E crash \in BOOLEAN : bpm' = [bpm EXCEPT !.replacer.failed = crash]

\* Lines 61-64 (NewPage, with AllocatePage) and 97-99 (FetchPage, with
\* ReadPage): the frame and the page table get the page.
InstallInFrame(th) ==
  /\ OnlyCallers
  /\ BpmRunning
  /\ callers[th].pc = "install"
  /\ LET c == callers[th]
         p == IF c.op = "NewPage" THEN bpm.next_page_id ELSE c.page_id
     IN /\ callers' = [callers EXCEPT ![th] = [@ EXCEPT !.pc = "pin", !.page_id = p]]
        /\ bpm' = [bpm EXCEPT !.next_page_id = IF c.op = "NewPage" THEN @ + 1 ELSE @,
                              !.page_id[c.frame] = p,
                              !.page_table = FnPut(@, p, c.frame),
                              !.data[c.frame] =
                                 IF c.op = "NewPage" THEN @ ELSE DiskRead(bpm.disk, p)]

\* Lines 65, 76 and 100: pin_count_++ reads the pin count ...
PinRead(th) ==
  /\ OnlyCallers
  /\ BpmRunning
  /\ callers[th].pc = "pin"
  /\ callers' = [callers EXCEPT ![th] =
                   [@ EXCEPT !.pc = "pinned", !.seen = bpm.pin_count[callers[th].frame]]]
  /\ UNCHANGED bpm

\* ... and writes it back incremented; lines 66-68 and 101-103 follow for a
\* page that was not resident, and the call returns.
PinWrite(th) ==
  /\ OnlyCallers
  /\ BpmRunning
  /\ callers[th].pc = "pinned"
  /\ LET c == callers[th] IN
     /\ bpm' = [bpm EXCEPT !.pin_count[c.frame] = c.seen + 1,
                           !.replacer = IF c.hit THEN @
                                        ELSE SetEvictable(RecordAccess(@, c.frame),
                                                          c.frame, FALSE)]
     /\ callers' = [callers EXCEPT ![th] = Returned(c)]

\* BufferPoolManager::UnpinPage, lines 107-114: the checks and the read of
\* pin_count_--.
CallUnpinPage(th, p, dirty) ==
  /\ OnlyCallers
  /\ CanStart(th)
  /\ p < bpm.next_page_id
  /\ UNCHANGED bpm
  /\ IF ~Resident(bpm, p) \/ bpm.pin_count[bpm.page_table[p]] <= 0
     THEN callers' = [callers EXCEPT ![th] = Returned(@)]
     ELSE callers' = [callers EXCEPT ![th] =
                        [@ EXCEPT !.pc = "unpin", !.op = "UnpinPage", !.page_id = p,
                                  !.frame = bpm.page_table[p], !.dirty = dirty,
                                  !.seen = bpm.pin_count[bpm.page_table[p]]]]

\* Lines 114-119: the write of pin_count_--, SetEvictable on
\* page_table_[page_id] (operator[] inserts frame 0 for a page that left the
\* table meanwhile) and the dirty flag.
UnpinWrite(th) ==
  /\ OnlyCallers
  /\ BpmRunning
  /\ callers[th].pc = "unpin"
  /\ LET c == callers[th]
         f == IF Resident(bpm, c.page_id) THEN bpm.page_table[c.page_id] ELSE 0
     IN /\ bpm' = [bpm EXCEPT !.pin_count[c.frame] = c.seen - 1,
                              !.page_table = IF c.seen - 1 = 0
                                             THEN FnPut(@, c.page_id, f) ELSE @,
                              !.replacer = IF c.seen - 1 = 0
                                           THEN SetEvictable(@, f, TRUE) ELSE @,
                              !.is_dirty[c.frame] = c.dirty]
        /\ callers' = [callers EXCEPT ![th] = Returned(c)]

\* BufferPoolManager::DeletePage and FlushPage, each as one step.
CallDeletePage(th, p) ==
  /\ OnlyCallers
  /\ CanStart(th)
  /\ p < bpm.next_page_id
  /\ bpm' = DeletePage(bpm, p)
  /\ callers' = [callers EXCEPT ![th] = Returned(@)]

CallFlushPage(th, p) ==
  /\ OnlyCallers
  /\ CanStart(th)
  /\ p < bpm.next_page_id
  /\ bpm' = FlushPage(bpm, p)
  /\ callers' = [callers EXCEPT ![th] = Returned(@)]

NextCallers ==
  \E th \in Callers :
    \/ CallNewPage(th)
    \/ \E p \in 0..(MaxPages - 1) : CallFetchPage(th, p)
    \/ PopFront(th)
    \/ InstallInFrame(th)
    \/ PinRead(th)
    \/ PinWrite(th)
    \/ \E p \in 0..(MaxPages - 1), dirty \in BOOLEAN : CallUnpinPage(th, p, dirty)
    \/ UnpinWrite(th)
    \/ \E p \in 0..(MaxPages - 1) : CallDeletePage(th, p)
    \/ \E p \in 0..(MaxPages - 1) : CallFlushPage(th, p)

\* Two calls hold the same frame for different pages.
SameFrameTaken ==
  \E t1, t2 \in Callers :
    /\ t1 # t2
    /\ callers[t1].pc \in {"pop", "install", "pin", "pinned"} /\ ~callers[t1].hit
    /\ callers[t2].pc \in {"pop", "install", "pin", "pinned"} /\ ~callers[t2].hit
    /\ callers[t1].frame = callers[t2].frame

\* The page table maps two pages to one frame.
TwoPagesInOneFrame ==
  \E p, q \in DOMAIN bpm.page_table :
    p # q /\ bpm.page_table[p] = bpm.page_table[q]

\* A pin or unpin writes a count that is not one more, or one less, than the
\* count the frame has when it is written.
LostPinUpdate ==
  \E th \in Callers :
    \/ PinWrite(th) /\ bpm'.pin_count[callers[th].frame] # bpm.pin_count[callers[th].frame] + 1
    \/ UnpinWrite(th) /\ bpm'.pin_count[callers[th].frame] # bpm.pin_count[callers[th].frame] - 1

\* C32: under any interleaving of buffer pool calls of several threads, two
\* calls never take the same free frame or victim for different pages, the
\* page table never maps two pages to one frame and no pin-count update is
\* lost.
C32_CallsAreAtomic ==
  /\ [](~SameFrameTaken /\ ~TwoPagesInOneFrame)
  /\ [][~LostPinUpdate]_vars

\* The pages from cur down to the leaf of key.
RECURSIVE PathTo(_, _, _)
PathTo(s, cur, key) ==
  IF s.pages[cur].page_type # "INTERNAL" THEN <<cur>>
  ELSE <<cur>> \o PathTo(s, ValueAt(s.pages[cur], GetKeyIndex(s.pages[cur], key)), key)

\* The pages whose guards the claim keeps in the write set at the leaf: the
\* path from the last page below the root that was safe when it was latched,
\* the whole path if there is none.
RetainedPath(s, key, is_insert) ==
  LET path == PathTo(s, RootPageId(s), key)
      safe == {i \in 2..Len(path) :
                 LET pg == s.pages[path[i]] IN
                 IF is_insert
                 THEN IF pg.page_type = "LEAF" THEN Len(pg.array) < pg.max_size - 1
                      ELSE Len(pg.array) < pg.max_size
                 ELSE Len(pg.array) > GetMinSize(pg)}
  IN SubSeq(path, IF safe = {} THEN 1 ELSE MaxOf(safe), Len(path))

\* The descent for key reaches the leaf.
Descends(s, key, is_insert) ==
  ~FindLeafPageWriteInsertOrDelete(s, key, is_insert).failed

\* The write set the descent for key ends with.
WriteSetAtLeaf(s, key, is_insert) ==
  FindLeafPageWriteInsertOrDelete(s, key, is_insert).ctx.write_set

\* C34: a descent of Insert or Remove releases the guards of the ancestors
\* exactly when the child it has latched is safe, and no Insert or Remove
\* finds the write set empty where it needs a parent.
C34_AncestorsKeptUnlessSafe ==
  /\ tree.thrown # "write_set_ empty"
  /\ (~tree.failed /\ RootPageId(tree) # INVALID_PAGE_ID) =>
       \A key \in TreeKeys, is_insert \in BOOLEAN :
         Descends(tree, key, is_insert) =>
           WriteSetAtLeaf(tree, key, is_insert) = RetainedPath(tree, key, is_insert)

\* A key whose insert descent keeps the root with the unsafe leaf and a key
\* whose remove descent releases the root, after a call on a tree of more
\* than one level.
C34_Witness ==
  /\ ~tree.failed
  /\ tlast.op \in {"Insert", "Remove"}
  /\ RootPageId(tree) # INVALID_PAGE_ID
  /\ \E key \in TreeKeys :
       Descends(tree, key, TRUE) /\ Len(WriteSetAtLeaf(tree, key, TRUE)) >= 2
  /\ \E key \in TreeKeys :
       /\ Descends(tree, key, FALSE)
       /\ Len(PathTo(tree, RootPageId(tree), key)) >= 2
       /\ Len(WriteSetAtLeaf(tree, key, FALSE)) = 1

\* C35: at every point of a GetValue descent, the header page included, the
\* thread holds at most two page guards.
C35_ReadHoldsAtMostTwo == tlast.op = "GetValue" => tree.held <= 2

(***************************************************************************)
(* ONE LOCK REQUEST QUEUE AMONG THREE TRANSACTIONS: LockTable, the wait     *)
(* loop and UnlockTable on the queue of one table, with the policy checks   *)
(* of lines 226-258 passed (REPEATABLE_READ, GROWING).                      *)
(***************************************************************************)
NumQueueTxns == 3
MaxQueueCalls == 2
QueueTxns == 1..NumQueueTxns
QueueOid == MinOf(Tables)

InitQueue ==
  /\ queue_map = EmptyFn
  /\ queue_pc = [t \in QueueTxns |-> "idle"]
  /\ queue_calls = [t \in QueueTxns |-> 0]

IdleQueue == InitQueue

\* The queue of the table, an empty one before the first LockTable call.
TheQueue ==
  IF QueueOid \in DOMAIN queue_map THEN queue_map[QueueOid] ELSE NewLockRequestQueue

\* LockManager::LockTable from line 260 up to its first GrantLock call.
QueueLock(t, mode) ==
  /\ OnlyQueue
  /\ queue_pc[t] = "idle"
  /\ queue_calls[t] < MaxQueueCalls
  /\ LET r == LockStep("OK", queue_map, QueueOid, t, mode, "GROWING") IN
     /\ queue_map' = r.map
     /\ queue_pc' = [queue_pc EXCEPT ![t] =
                       IF r.ret = "wait" THEN "waiting"
                       ELSE IF r.ret = "abort" THEN "aborted"
                       ELSE "idle"]
  /\ queue_calls' = [queue_calls EXCEPT ![t] = @ + 1]

\* Lines 332-352: the thread returns from cv_.wait (notified or spuriously)
\* and calls GrantLock again.
QueueWake(t) ==
  /\ OnlyQueue
  /\ queue_pc[t] = "waiting"
  /\ LET r == WakeStep(queue_map, QueueOid, t, "GROWING") IN
     /\ r.ret = "true"
     /\ queue_map' = r.map
     /\ queue_pc' = [queue_pc EXCEPT ![t] = "idle"]
  /\ UNCHANGED queue_calls

\* Lines 334-343: the transaction was set ABORTED while its thread waited
\* (by the deadlock detector, for a cycle through another resource); the
\* thread erases its request and returns false.
QueueAbortedWake(t) ==
  /\ OnlyQueue
  /\ queue_pc[t] = "waiting"
  /\ queue_map' = WakeStep(queue_map, QueueOid, t, "ABORTED").map
  /\ queue_pc' = [queue_pc EXCEPT ![t] = "aborted"]
  /\ UNCHANGED queue_calls

\* Lines 375-384 of UnlockTable, also as called for an aborted transaction:
\* the granted request of t is erased.
QueueUnlock(t) ==
  /\ OnlyQueue
  /\ queue_pc[t] \in {"idle", "aborted"}
  /\ \E i \in DOMAIN TheQueue.request_queue :
       TheQueue.request_queue[i].txn_id = t /\ TheQueue.request_queue[i].granted
  /\ queue_map' = [queue_map EXCEPT ![QueueOid].request_queue = EraseRequest(@, t)]
  /\ UNCHANGED <<queue_pc, queue_calls>>

NextQueue ==
  \E t \in QueueTxns :
    \/ \E mode \in LockModes : QueueLock(t, mode)
    \/ QueueWake(t)
    \/ QueueAbortedWake(t)
    \/ QueueUnlock(t)

\* The transaction whose upgrade waits in queue q, INVALID_TXN_ID if none.
WaitingUpgrade(q) ==
  IF /\ q.upgrading # INVALID_TXN_ID
     /\ \E i \in DOMAIN q.request_queue :
          q.request_queue[i].txn_id = q.upgrading /\ ~q.request_queue[i].granted
  THEN q.upgrading
  ELSE INVALID_TXN_ID

\* C31 (as claimed): while an upgrade waits, the transaction has one request
\* in the queue, every request before it is granted and every request after
\* it is ungranted.
C31_UpgradeAfterGrantedBeforeUngranted ==
  LET rq == TheQueue.request_queue
      t == WaitingUpgrade(TheQueue)
  IN t # INVALID_TXN_ID =>
       /\ Cardinality({i \in DOMAIN rq : rq[i].txn_id = t}) = 1
       /\ \A j \in DOMAIN rq :
            /\ j < ReqIndex(rq, t) => rq[j].granted
            /\ j > ReqIndex(rq, t) => ~rq[j].granted

\* C39: in every reachable state the upgrading marker of every lock request
\* queue is none or the id of a transaction with an ungranted request in
\* that queue.
C39_UpgradingMarkerIsLive ==
  /\ \A oid \in DOMAIN table_lock_map :
       table_lock_map[oid].upgrading \in {INVALID_TXN_ID, WaitingUpgrade(table_lock_map[oid])}
  /\ \A rid \in DOMAIN row_lock_map :
       row_lock_map[rid].upgrading \in {INVALID_TXN_ID, WaitingUpgrade(row_lock_map[rid])}

(***************************************************************************)
(* SPECIFICATIONS: one per subsystem; the other subsystems stay idle.      *)
(***************************************************************************)
StartGuard == InitGuard /\ IdleBpm /\ IdleLock /\ IdleTree /\ IdleQueue /\ IdleCallers

SpecGuard == StartGuard /\ [][NextGuard]_vars

StartBpm == InitBpm /\ InitGuard /\ IdleLock /\ IdleTree /\ IdleQueue /\ IdleCallers

SpecBpm == StartBpm /\ [][NextBpm]_vars

SpecBpmGuards == StartBpm /\ [][NextBpmGuards]_vars

StartReplacer == IdleBpm /\ InitGuard /\ IdleLock /\ IdleTree /\ IdleQueue /\ IdleCallers

SpecReplacer == StartReplacer /\ [][NextReplacer]_vars

StartLock == InitLock /\ InitGuard /\ IdleBpm /\ IdleTree /\ IdleQueue /\ IdleCallers

SpecLock == StartLock /\ [][NextLock]_vars

\* The thread of a lock call runs on once it can: it enters cv_.wait and,
\* when notified, re-acquires the latch and checks again.  Calls, unlocks,
\* commits and aborts are the callers' choice.
FairLock ==
  /\ SpecLock
  /\ \A t \in Txns : WF_vars(WaitOnQueue(t) \/ WakeTable(t) \/ WakeRow(t))

StartDeadlock == IdleLock /\ InitGuard /\ IdleBpm /\ IdleTree /\ IdleQueue /\ IdleCallers

SpecDeadlock == StartDeadlock /\ [][NextDeadlock]_vars

StartCycle == InitCycle /\ InitGuard /\ IdleBpm /\ IdleTree /\ IdleQueue /\ IdleCallers

SpecCycle == StartCycle /\ [][NextCycle]_vars

StartTree == InitTree /\ InitGuard /\ IdleBpm /\ IdleLock /\ IdleQueue /\ IdleCallers

SpecTree == StartTree /\ [][NextTree]_vars

StartTreeWrites == InitTreeWrites /\ InitGuard /\ IdleBpm /\ IdleLock /\ IdleQueue /\ IdleCallers

SpecTreeWrites == StartTreeWrites /\ [][NextTreeWrites]_vars

StartConc == InitConc /\ InitGuard /\ IdleBpm /\ IdleLock /\ IdleQueue /\ IdleCallers

StartTreeScan == InitTreeScan /\ InitGuard /\ IdleBpm /\ IdleLock /\ IdleQueue /\ IdleCallers

SpecTreeOrder == StartTreeWrites /\ [][NextTreeOrder]_vars

SpecTreeScan == StartTreeScan /\ [][NextTreeScan]_vars

SpecTreeScanEnd == StartTreeScan /\ [][NextTreeScanEnd]_vars

StartTreeShared == InitTreeShared /\ InitGuard /\ IdleBpm /\ IdleLock /\ IdleQueue /\ IdleCallers

SpecTreeShared == StartTreeShared /\ [][NextTreeShared]_vars

SpecConc == StartConc /\ [][NextConc]_vars

\* The detector runs again and again, a thread that can continue does, and
\* the manager of an ABORTED transaction releases its locks.
FairDeadlock ==
  /\ SpecDeadlock
  /\ WF_vars(DetBuild \/ NextVictim)
  /\ \A t \in Txns :
       WF_vars(\/ WaitOnQueue(t)
               \/ WakeTable(t)
               \/ WakeRow(t)
               \/ txn_state[t] = "ABORTED" /\ TxnAbort(t))

\* The steps of thread t around the header latch.
ThreadStep(t) ==
  \/ \E ub \in RaceOutcomes : ConcLatch(t, ub)
  \/ ConcPin(t)
  \/ \E ub \in RaceOutcomes : ConcUnpin(t, ub)
  \/ \E ub \in RaceOutcomes : ConcUnpinWrite(t, ub)

\* ConcBody(t, ub) can be taken: it has no other condition, and it moves the
\* thread on to "unpin".
InBody(t) == ~tree.failed /\ threads.thr[t].pc = "body"

\* Every thread that can take a step is scheduled: a thread waiting for the
\* header latch takes it once the latch stays free, and a thread under the
\* latch runs its call (weak fairness of ConcBody, whose steps are the ones
\* that end InBody).
FairConc ==
  /\ SpecConc
  /\ \A t \in Threads : WF_vars(ThreadStep(t)) /\ []<>~InBody(t)

StartQueue == InitQueue /\ InitGuard /\ IdleBpm /\ IdleLock /\ IdleTree /\ IdleCallers

SpecQueue == StartQueue /\ [][NextQueue]_vars

SpecBpmFlush == StartBpm /\ [][NextBpmFlush]_vars

StartCallers == InitBpm /\ InitGuard /\ IdleLock /\ IdleTree /\ IdleQueue /\ InitCallers

SpecCallers == StartCallers /\ [][NextCallers]_vars

====
